---- MODULE Spec2Model ----
(***************************************************************************)
(* Model of the two LangGraph workflows of Story_Assistant:                *)
(*   - src/src/workflows/story_generation.py   (single-shot generation)    *)
(*   - src/src/workflows/chapter_continuation.py (segment continuation)    *)
(* One action is one super-step of the compiled graph: the node's handler  *)
(* followed by the edge (static or conditional router) that leaves it.     *)
(* A capability provider is BaseAgent.process_request, which catches every *)
(* exception and returns AgentResponse(success=False), so a provider call  *)
(* has exactly two shapes: success with a result, or failure.              *)
(* Quality scores are scaled by 100 (0.7 is 70).                           *)
(***************************************************************************)
EXTENDS Integers, Sequences, FiniteSets, TLC

\* ---------------------------------------------------------------- bounds
MaxTarget == 3
MaxFailures == 4
RecursionLimit == 25
MaxTextLen == 2
MaxFinalSegments == 2
MaxInvocations == 2
MaxTaskTarget == 1
MaxTaskFailures == 1
MaxIds == 3
MaxChapterIds == 4
MaxStoryCharacters == 1
MaxEdits == 2

\* ------------------------------------------------------ program constants
SegmentQualityThreshold == 70
NarrativeQualityThreshold == 60
DefaultQualityScore == 50
RegenerationCap == 2
NarrativeRetryCap == 2
WorkflowRetryCap == 3
LoopErrorBudget == 3
RouterErrorBudget == 5
StoryCharacterCap == 10

\* Results a reviewer may return: an overall_quality_score on either side of
\* the gate of each workflow, or quality_metrics without that score.
WithScore(s) == [has_score |-> TRUE, score |-> s]
WithoutScore == [has_score |-> FALSE, score |-> 0]
SegmentQualityResults == {WithScore(69), WithScore(70)}
NarrativeQualityResults == {WithScore(59), WithScore(60), WithScore(70), WithoutScore}
Modes == {"seamless", "user_guided", "chapter_break"}
MaxSeg == MaxTarget + 1

VARIABLES
    wf,                  \* which workflow this execution runs: "gen" | "cont"
    failures,            \* provider calls that returned success=False so far
    unhandled_failure,   \* a critical provider call failed and the error-handling
                         \* step has not run since
    \* ---- ChapterContinuationState
    c_pc,                \* node the engine runs next, "END" or "raised"
    c_steps,             \* super-steps executed by ainvoke
    target_segments,
    continuation_mode,
    image_enabled,       \* story_context.image_settings["enabled"]
    context_analysis,
    continuation_plan,
    narrative_segments,  \* seq of [segment_number, quality_passed]
    quality_checks,      \* seq of [segment_number, has_score, score]
    world_updates,       \* seq of segment numbers (segment_updates)
    visual_generations,  \* seq of segment numbers
    current_segment,
    completed_segments,  \* seq of indices into narrative_segments (same dict objects)
    c_current_step,
    should_continue,
    chapter_complete,
    final_chapter_content, \* [set, pieces]; set = FALSE is None
    continuation_context,
    c_errors,            \* len(state["errors"]); the code appends and reads len() only
    warnings,            \* len(state["warnings"])
    \* ---- history of the continuation routers
    c_route,             \* last router decision: [router, decision]
    c_decisions,         \* number of router decisions taken
    regenerations,       \* segment number -> number of "regenerate" decisions
    accepted,            \* segments (indices) the reviewer scored in a step that
                         \* the quality router answered "update_world"/"continue"
    error_retries,       \* "retry" decisions of the error router
    \* ---- StoryGenerationState
    g_pc,
    g_steps,
    include_images,
    orchestration_result, \* [set, world_building]; set = FALSE is None
    narrative_result,     \* "none" | "content" | "empty"
    quality_result,       \* [set, has_score, score]; set = FALSE is None
    world_result,
    visual_result,
    context_result,
    g_current_step,
    completed_steps,
    failed_steps,
    retry_count,
    final_result,         \* "none" | "success" | "exhausted"
    g_errors,             \* len(state["errors"])
    should_retry,
    \* ---- history of the single-shot routers and providers
    g_route,              \* last router decision: [router, decision]
    restarts,             \* handle_error -> orchestrate transitions
    narrative_retries,    \* "retry_narrative" decisions since the last (re)start
    narrator_failures,
    narrator_successes,
    \* ---- _finalize_chapter on the text level
    previous_content,         \* state["previous_content"], a text; the graphs
                              \* only pass it on, _finalize_chapter reads it
    f_completed_segments,     \* seq of [content, word_count]
    f_final_chapter_content,  \* [set, text]; set = FALSE is None
    f_final_word_count,
    f_continuation_context,
    f_invocations,            \* calls of _finalize_chapter so far
    \* ---- concurrent executions on the module-level chapter_workflow
    t_states,                 \* task -> state dict of its ainvoke, with the
                              \* position of its execute_chapter_continuation
    initialized,              \* chapter_workflow.initialized
    agents_built,             \* how often initialize() replaced self.agents
    initialize_runs,          \* how often initialize() was called
    \* ---- story_manager = StoryManager() and the reply of the last request
    stories,                  \* self.stories: id -> [title, chapters, characters,
                              \*                      segments]
    characters,               \* self.characters: id -> [name]
    relationships,            \* self.relationships: id -> [character1_id,
                              \*                            character2_id, type]
    uuid_count,               \* ids handed out by uuid.uuid4() so far
    response,                 \* [status, chapters] of the last reply
    \* ---- the background task around one workflow execution
    status_writes,            \* the updates of the task's row of generation_tasks
                              \* attempted so far: seq of [status, raised]
    \* ---- history of the segments of the story manager
    first_content,            \* segment id -> the content add_segment stored
    edits                     \* segment id -> edit_segment calls that found it,
                              \* counted up to MaxEdits

cvars == <<c_pc, c_steps, target_segments, continuation_mode, image_enabled,
           context_analysis, continuation_plan, narrative_segments,
           quality_checks, world_updates, visual_generations, current_segment,
           completed_segments, c_current_step, should_continue,
           chapter_complete, final_chapter_content, continuation_context,
           c_errors, warnings, c_route, c_decisions, regenerations,
           accepted, error_retries>>

gvars == <<g_pc, g_steps, include_images, orchestration_result,
           narrative_result, quality_result, world_result, visual_result,
           context_result, g_current_step, completed_steps, failed_steps,
           retry_count, final_result, g_errors, should_retry, g_route,
           restarts, narrative_retries, narrator_failures, narrator_successes>>

fvars == <<previous_content, f_completed_segments, f_final_chapter_content,
           f_final_word_count, f_continuation_context, f_invocations>>

\* variables outside the two workflow graphs
tvars == <<t_states, initialized, agents_built, initialize_runs>>

\* the StoryManager singleton and the reply of the last request
mvars == <<stories, characters, relationships, uuid_count, response>>

\* the background task function of the API
bvars == <<status_writes>>

\* what the segments were created with
svars == <<first_content, edits>>

auxvars == <<fvars, tvars, mvars, bvars, svars>>

vars == <<wf, failures, unhandled_failure, cvars, gvars, auxvars>>

Terminal == {"END", "raised"}

\* the two shapes of AgentResponse a provider call returns
Succeeds == UNCHANGED <<failures, unhandled_failure>>
Fails ==
    /\ failures < MaxFailures
    /\ failures' = failures + 1
    /\ UNCHANGED unhandled_failure
NoCall == UNCHANGED <<failures, unhandled_failure>>

\* a failure of a provider the workflow cannot do without: planner, continuity
\* tracker of the analysis step, narrator, reviewer
CriticalFails ==
    /\ failures < MaxFailures
    /\ failures' = failures + 1
    /\ unhandled_failure' = TRUE

\* the error-handling step runs (it calls no provider)
ErrorHandled ==
    /\ UNCHANGED failures
    /\ unhandled_failure' = FALSE

\* ------------------------------------------------------------- helpers
RECURSIVE CountSeg(_, _)
CountSeg(qs, n) ==
    IF qs = <<>> THEN 0
    ELSE (IF Head(qs).segment_number = n THEN 1 ELSE 0) + CountSeg(Tail(qs), n)

\* quality_metrics.get("overall_quality_score", 0.5)
OverallScore(q) == IF q.has_score THEN q.score ELSE DefaultQualityScore

\* ===================================================================
\*                 chapter_continuation.py
\* ===================================================================

EvaluateSegmentQuality(q) == OverallScore(q) >= SegmentQualityThreshold

\* the loop condition without its error budget
ShouldContinueGeneration_NoErrorBudget(cs, target, errs, mode) ==
    IF cs >= target THEN FALSE
    ELSE IF mode = "user_guided" THEN FALSE
    ELSE TRUE

ShouldContinueGeneration(cs, target, errs, mode) ==
    IF cs >= target THEN FALSE
    ELSE IF errs > LoopErrorBudget THEN FALSE
    ELSE IF mode = "user_guided" THEN FALSE
    ELSE TRUE

QualityRouting(qcs, cs) ==
    IF qcs = <<>> THEN "error"
    ELSE IF ~EvaluateSegmentQuality(qcs[Len(qcs)])
         THEN (IF CountSeg(qcs, cs + 1) < RegenerationCap
               THEN "regenerate" ELSE "continue")
         ELSE "update_world"

WorldUpdateRouting(enabled) ==
    IF enabled THEN "generate_visuals" ELSE "evaluate"

ContinuationRouting(sc) ==
    IF sc THEN "continue_segment" ELSE "finalize"

ErrorRouting(errs, completed) ==
    IF errs > RouterErrorBudget THEN "end"
    ELSE IF completed # <<>> THEN "finalize"
    ELSE "retry"

\* conditional-edge maps of _build_workflow_graph
QualityEdge(r) ==
    CASE r = "regenerate"   -> "generate_segment"
      [] r = "update_world" -> "update_world_context"
      [] r = "continue"     -> "evaluate_continuation"
      [] r = "error"        -> "handle_continuation_error"

\* an edge map that sends the world update step to the error handler
WorldUpdateEdge_ToError(r) == "handle_continuation_error"

WorldUpdateEdge(r) ==
    CASE r = "generate_visuals" -> "generate_segment_visuals"
      [] r = "evaluate"         -> "evaluate_continuation"

ContinuationEdge(r) ==
    CASE r = "continue_segment" -> "generate_segment"
      [] r = "finalize"         -> "finalize_chapter"
      [] r = "error"            -> "handle_continuation_error"

ErrorEdge(r) ==
    CASE r = "retry"    -> "generate_segment"
      [] r = "finalize" -> "finalize_chapter"
      [] r = "end"      -> "END"

ContInit ==
    /\ c_pc = "analyze_continuation_context"
    /\ c_steps = 0
    /\ IF wf = "cont"
       THEN /\ target_segments \in 0..MaxTarget
            /\ continuation_mode \in Modes
            /\ image_enabled \in BOOLEAN
       ELSE /\ target_segments = 1
            /\ continuation_mode = "seamless"
            /\ image_enabled = FALSE
    /\ context_analysis = FALSE
    /\ continuation_plan = FALSE
    /\ narrative_segments = <<>>
    /\ quality_checks = <<>>
    /\ world_updates = <<>>
    /\ visual_generations = <<>>
    /\ current_segment = 0
    /\ completed_segments = <<>>
    /\ c_current_step = "analyze_continuation_context"
    /\ should_continue = TRUE
    /\ chapter_complete = FALSE
    /\ final_chapter_content = [set |-> FALSE, pieces |-> <<>>]
    /\ continuation_context = FALSE
    /\ c_errors = 0
    /\ warnings = 0
    /\ c_route = [router |-> "none", decision |-> "none"]
    /\ c_decisions = 0
    /\ regenerations = [n \in 1..MaxSeg |-> 0]
    /\ accepted = {}
    /\ error_retries = 0

\* one super-step of the continuation graph at node n
ContAt(n) ==
    /\ wf = "cont"
    /\ c_pc = n
    /\ c_steps < RecursionLimit
    /\ c_steps' = c_steps + 1
    /\ UNCHANGED <<wf, gvars, auxvars, target_segments, continuation_mode,
                   image_enabled>>

NoFinal == UNCHANGED <<final_chapter_content, continuation_context>>

NoRouter == UNCHANGED <<c_route, c_decisions, regenerations, accepted,
                        error_retries>>

Routed(router, r) ==
    /\ c_route' = [router |-> router, decision |-> r]
    /\ c_decisions' = c_decisions + 1

AnalyzeContinuationContext ==
    /\ ContAt("analyze_continuation_context")
    /\ \E ok \in BOOLEAN :
         IF ok
         THEN /\ Succeeds
              /\ context_analysis' = TRUE
              /\ c_current_step' = "plan_continuation"
              /\ UNCHANGED <<c_errors, should_continue>>
         ELSE /\ CriticalFails
              /\ c_errors' = c_errors + 1
              /\ should_continue' = FALSE
              /\ UNCHANGED <<context_analysis, c_current_step>>
    /\ c_pc' = "plan_continuation"
    /\ NoRouter
    /\ UNCHANGED <<continuation_plan, narrative_segments, quality_checks,
                   world_updates, visual_generations, current_segment,
                   completed_segments, chapter_complete,
                   warnings>>
    /\ NoFinal

PlanContinuation ==
    /\ ContAt("plan_continuation")
    /\ \E ok \in BOOLEAN :
         IF ok
         THEN /\ Succeeds
              /\ continuation_plan' = TRUE
              /\ c_current_step' = "generate_segment"
              /\ UNCHANGED <<c_errors, should_continue>>
         ELSE /\ CriticalFails
              /\ c_errors' = c_errors + 1
              /\ should_continue' = FALSE
              /\ UNCHANGED <<continuation_plan, c_current_step>>
    /\ c_pc' = "generate_segment"
    /\ NoRouter
    /\ UNCHANGED <<context_analysis, narrative_segments, quality_checks,
                   world_updates, visual_generations, current_segment,
                   completed_segments, chapter_complete,
                   warnings>>
    /\ NoFinal

GenerateSegment ==
    /\ ContAt("generate_segment")
    /\ \E ok \in BOOLEAN :
         IF ok
         THEN /\ Succeeds
              /\ narrative_segments' =
                    Append(narrative_segments,
                           [segment_number |-> current_segment + 1,
                            quality_passed |-> "unset"])
              /\ c_current_step' = "check_segment_quality"
              /\ UNCHANGED c_errors
         ELSE /\ CriticalFails
              /\ c_errors' = c_errors + 1
              /\ UNCHANGED <<narrative_segments, c_current_step>>
    /\ c_pc' = "check_segment_quality"
    /\ NoRouter
    /\ UNCHANGED <<context_analysis, continuation_plan, quality_checks,
                   world_updates, visual_generations, current_segment,
                   completed_segments, should_continue, chapter_complete,
                   warnings>>
    /\ NoFinal

CheckSegmentQuality ==
    /\ ContAt("check_segment_quality")
    /\ IF narrative_segments = <<>>
       THEN /\ NoCall
            /\ c_errors' = c_errors + 1
            /\ UNCHANGED <<quality_checks, narrative_segments, warnings,
                           c_current_step>>
       ELSE \E ok \in BOOLEAN :
              IF ok
              THEN \E q \in SegmentQualityResults :
                     LET quality_result_ ==
                            [segment_number |-> current_segment + 1,
                             has_score |-> q.has_score, score |-> q.score]
                         last == Len(narrative_segments)
                     IN /\ Succeeds
                        /\ quality_checks' = Append(quality_checks, quality_result_)
                        /\ narrative_segments' =
                              [narrative_segments EXCEPT ![last].quality_passed =
                                  IF EvaluateSegmentQuality(quality_result_)
                                  THEN "yes" ELSE "no"]
                        /\ c_current_step' = "update_world_context"
                        /\ UNCHANGED <<c_errors, warnings>>
              ELSE /\ CriticalFails
                   /\ warnings' = warnings + 1
                   /\ c_current_step' = "evaluate_continuation"
                   /\ UNCHANGED <<c_errors, quality_checks, narrative_segments>>
    /\ LET r == QualityRouting(quality_checks', current_segment)
       IN /\ Routed("_quality_routing", r)
          /\ c_pc' = QualityEdge(r)
          /\ regenerations' =
                IF r = "regenerate"
                THEN [regenerations EXCEPT ![current_segment + 1] = @ + 1]
                ELSE regenerations
          /\ accepted' =
                IF /\ Len(quality_checks') > Len(quality_checks)
                   /\ r \in {"update_world", "continue"}
                THEN accepted \cup {Len(narrative_segments)}
                ELSE accepted
    /\ UNCHANGED <<context_analysis, continuation_plan, world_updates,
                   visual_generations, current_segment, completed_segments,
                   should_continue, chapter_complete, error_retries>>
    /\ NoFinal

UpdateWorldContext ==
    /\ ContAt("update_world_context")
    /\ IF narrative_segments = <<>>
       THEN /\ NoCall
            /\ UNCHANGED <<world_updates, c_current_step>>
       ELSE /\ \E ok \in BOOLEAN :
                 IF ok
                 THEN /\ Succeeds
                      /\ world_updates' = Append(world_updates, current_segment + 1)
                 ELSE /\ Fails
                      /\ UNCHANGED world_updates
            /\ c_current_step' = "evaluate_continuation"
    /\ LET r == WorldUpdateRouting(image_enabled)
       IN /\ Routed("_world_update_routing", r)
          /\ c_pc' = WorldUpdateEdge(r)
    /\ UNCHANGED <<context_analysis, continuation_plan, narrative_segments,
                   quality_checks, visual_generations, current_segment,
                   completed_segments, should_continue, chapter_complete,
                   c_errors, warnings, regenerations, accepted,
                   error_retries>>
    /\ NoFinal

GenerateSegmentVisuals ==
    /\ ContAt("generate_segment_visuals")
    /\ IF ~image_enabled \/ narrative_segments = <<>>
       THEN /\ NoCall
            /\ UNCHANGED visual_generations
       ELSE \E ok \in BOOLEAN :
              IF ok
              THEN /\ Succeeds
                   /\ visual_generations' =
                         Append(visual_generations, current_segment + 1)
              ELSE /\ Fails
                   /\ UNCHANGED visual_generations
    /\ c_pc' = "evaluate_continuation"
    /\ NoRouter
    /\ UNCHANGED <<context_analysis, continuation_plan, narrative_segments,
                   quality_checks, world_updates, current_segment,
                   completed_segments, c_current_step, should_continue,
                   chapter_complete, c_errors, warnings>>
    /\ NoFinal

\* "Mark current segment as completed": the latest dict of narrative_segments
MarkCompleted_NoAppend(completed, segs) == completed

\* marks the oldest dict of narrative_segments instead of the latest
MarkCompleted_Oldest(completed, segs) ==
    IF segs # <<>> THEN Append(completed, 1) ELSE completed

MarkCompleted(completed, segs) ==
    IF segs # <<>> THEN Append(completed, Len(segs)) ELSE completed

EvaluateContinuation ==
    /\ ContAt("evaluate_continuation")
    /\ NoCall
    /\ completed_segments' = MarkCompleted(completed_segments, narrative_segments)
    /\ current_segment' = current_segment + 1
    /\ LET sc == ShouldContinueGeneration(current_segment', target_segments,
                                          c_errors, continuation_mode)
       IN /\ should_continue' = sc
          /\ c_current_step' = IF sc THEN "generate_segment" ELSE "finalize_chapter"
          /\ chapter_complete' = IF sc THEN chapter_complete ELSE TRUE
    /\ LET r == ContinuationRouting(should_continue')
       IN /\ Routed("_continuation_routing", r)
          /\ c_pc' = ContinuationEdge(r)
    /\ UNCHANGED <<context_analysis, continuation_plan, narrative_segments,
                   quality_checks, world_updates, visual_generations,
                   c_errors, warnings, regenerations, accepted,
                   error_retries>>
    /\ NoFinal

\* final content without previous_content in front
FinalContent_SegmentsOnly(completed) == completed

\* final content: previous_content followed by the completed segments' content
FinalContent(completed) == <<0>> \o completed

FinalizeChapter ==
    /\ ContAt("finalize_chapter")
    /\ \E ok \in BOOLEAN :
         IF ok
         THEN /\ Succeeds
              /\ continuation_context' = TRUE
         ELSE /\ Fails
              /\ UNCHANGED continuation_context
    /\ final_chapter_content' =
          [set |-> TRUE, pieces |-> FinalContent(completed_segments)]
    /\ c_pc' = "END"
    /\ NoRouter
    /\ UNCHANGED <<context_analysis, continuation_plan, narrative_segments,
                   quality_checks, world_updates, visual_generations,
                   current_segment, completed_segments, c_current_step,
                   should_continue, chapter_complete, c_errors, warnings>>

HandleContinuationError ==
    /\ ContAt("handle_continuation_error")
    /\ ErrorHandled
    /\ c_current_step' = "finalize_chapter"
    /\ should_continue' = FALSE
    /\ LET r == ErrorRouting(c_errors, completed_segments)
       IN /\ Routed("_error_routing", r)
          /\ c_pc' = ErrorEdge(r)
          /\ error_retries' = IF r = "retry" THEN error_retries + 1
                              ELSE error_retries
    /\ UNCHANGED <<context_analysis, continuation_plan, narrative_segments,
                   quality_checks, world_updates, visual_generations,
                   current_segment, completed_segments, chapter_complete,
                   c_errors, warnings, regenerations, accepted>>
    /\ NoFinal

\* workflow.ainvoke runs out of super-steps: GraphRecursionError, caught by
\* execute_continuation_workflow
ContRecursionError ==
    /\ wf = "cont"
    /\ c_pc \notin Terminal
    /\ c_steps >= RecursionLimit
    /\ c_pc' = "raised"
    /\ UNCHANGED <<wf, failures, unhandled_failure, gvars, auxvars, c_steps, target_segments, continuation_mode,
                   image_enabled, context_analysis, continuation_plan,
                   narrative_segments, quality_checks, world_updates,
                   visual_generations, current_segment, completed_segments,
                   c_current_step, should_continue, chapter_complete,
                   final_chapter_content, continuation_context, c_errors,
                   warnings, c_route, c_decisions, regenerations, accepted,
                   error_retries>>

ContNext ==
    \/ AnalyzeContinuationContext
    \/ PlanContinuation
    \/ GenerateSegment
    \/ CheckSegmentQuality
    \/ UpdateWorldContext
    \/ GenerateSegmentVisuals
    \/ EvaluateContinuation
    \/ FinalizeChapter
    \/ HandleContinuationError
    \/ ContRecursionError

\* ===================================================================
\*                 story_generation.py
\* ===================================================================

\* state.get("orchestration_result", {}) is None while orchestrate has never
\* succeeded (the key exists), and None.get raises AttributeError.
ShouldEnhanceWorld(orch) ==
    IF ~orch.set THEN "AttributeError"
    ELSE IF orch.world_building THEN "enhance_world"
    ELSE "generate_narrative"

QualityCheckRouting_Gate70(qr, rc, images) ==
    IF ~qr.set THEN "error"
    ELSE IF OverallScore(qr) < SegmentQualityThreshold /\ rc < NarrativeRetryCap
         THEN "retry_narrative"
    ELSE IF images THEN "generate_visuals"
    ELSE "finalize"

QualityCheckRouting(qr, rc, images) ==
    IF ~qr.set THEN "error"
    ELSE IF OverallScore(qr) < NarrativeQualityThreshold /\ rc < NarrativeRetryCap
         THEN "retry_narrative"
    ELSE IF images THEN "generate_visuals"
    ELSE "finalize"

ShouldGenerateVisuals == "finalize"

ErrorRecoveryRouting(sr, fr) ==
    IF sr THEN "retry"
    ELSE IF fr # "none" THEN "end"
    ELSE "error"

EnhanceWorldEdge(r) ==
    CASE r = "enhance_world"      -> "enhance_world"
      [] r = "generate_narrative" -> "generate_narrative"
      [] r = "AttributeError"     -> "raised"

\* an edge map whose "finalize" key leads to the visual step
QualityCheckEdge_VisualsFirst(r) ==
    CASE r = "retry_narrative"  -> "generate_narrative"
      [] r = "generate_visuals" -> "generate_visuals"
      [] r = "finalize"         -> "generate_visuals"
      [] r = "error"            -> "handle_error"

QualityCheckEdge(r) ==
    CASE r = "retry_narrative"  -> "generate_narrative"
      [] r = "generate_visuals" -> "generate_visuals"
      [] r = "finalize"         -> "finalize_output"
      [] r = "error"            -> "handle_error"

VisualsEdge(r) ==
    CASE r = "finalize"     -> "finalize_output"
      [] r = "skip_visuals" -> "finalize_output"

\* an edge map whose "retry" key re-enters at the narrator
ErrorRecoveryEdge_SkipPlanning(r) ==
    CASE r = "retry" -> "generate_narrative"
      [] r = "error" -> "finalize_output"
      [] r = "end"   -> "END"

ErrorRecoveryEdge(r) ==
    CASE r = "retry" -> "orchestrate"
      [] r = "error" -> "finalize_output"
      [] r = "end"   -> "END"

GenInit ==
    /\ g_pc = "orchestrate"
    /\ g_steps = 0
    /\ IF wf = "gen" THEN include_images \in BOOLEAN ELSE include_images = FALSE
    /\ orchestration_result = [set |-> FALSE, world_building |-> FALSE]
    /\ narrative_result = "none"
    /\ quality_result = [set |-> FALSE, has_score |-> FALSE, score |-> 0]
    /\ world_result = "none"
    /\ visual_result = "none"
    /\ context_result = FALSE
    /\ g_current_step = "orchestrate"
    /\ completed_steps = {}
    /\ failed_steps = {}
    /\ retry_count = 0
    /\ final_result = "none"
    /\ g_errors = 0
    /\ should_retry = FALSE
    /\ g_route = [router |-> "none", decision |-> "none"]
    /\ restarts = 0
    /\ narrative_retries = 0
    /\ narrator_failures = 0
    /\ narrator_successes = 0

GenAt(n) ==
    /\ wf = "gen"
    /\ g_pc = n
    /\ g_steps < RecursionLimit
    /\ g_steps' = g_steps + 1
    /\ UNCHANGED <<wf, cvars, auxvars, include_images>>

NoNarrator == UNCHANGED <<narrator_failures, narrator_successes>>

OrchestrateStep ==
    /\ GenAt("orchestrate")
    /\ \E ok \in BOOLEAN :
         IF ok
         THEN \E wb \in BOOLEAN :
                /\ Succeeds
                /\ orchestration_result' = [set |-> TRUE, world_building |-> wb]
                /\ completed_steps' = completed_steps \cup {"orchestrate"}
                /\ g_current_step' = "analyze_context"
                /\ UNCHANGED <<g_errors, failed_steps, should_retry>>
         ELSE /\ CriticalFails
              /\ g_errors' = g_errors + 1
              /\ failed_steps' = failed_steps \cup {"orchestrate"}
              /\ should_retry' = TRUE
              /\ UNCHANGED <<orchestration_result, completed_steps, g_current_step>>
    /\ g_pc' = "analyze_context"
    /\ NoNarrator
    /\ UNCHANGED <<narrative_result, quality_result, world_result,
                   visual_result, context_result, retry_count, final_result,
                   g_route, restarts, narrative_retries>>

AnalyzeContextStep ==
    /\ GenAt("analyze_context")
    /\ \E ok \in BOOLEAN :
         IF ok
         THEN /\ Succeeds
              /\ context_result' = TRUE
              /\ completed_steps' = completed_steps \cup {"analyze_context"}
              /\ g_current_step' = "generate_narrative"
              /\ UNCHANGED <<g_errors, failed_steps>>
         ELSE /\ CriticalFails
              /\ g_errors' = g_errors + 1
              /\ failed_steps' = failed_steps \cup {"analyze_context"}
              /\ UNCHANGED <<context_result, completed_steps, g_current_step>>
    /\ LET r == ShouldEnhanceWorld(orchestration_result)
       IN /\ g_route' = [router |-> "_should_enhance_world", decision |-> r]
          /\ g_pc' = EnhanceWorldEdge(r)
    /\ NoNarrator
    /\ UNCHANGED <<orchestration_result, narrative_result, quality_result,
                   world_result, visual_result, retry_count, final_result,
                   should_retry, restarts, narrative_retries>>

EnhanceWorldStep ==
    /\ GenAt("enhance_world")
    /\ \E ok \in BOOLEAN :
         IF ok
         THEN /\ Succeeds
              /\ world_result' = "result"
              /\ completed_steps' = completed_steps \cup {"enhance_world"}
         ELSE /\ Fails
              /\ world_result' = "empty"
              /\ UNCHANGED completed_steps
    /\ g_pc' = "generate_narrative"
    /\ NoNarrator
    /\ UNCHANGED <<orchestration_result, narrative_result, quality_result,
                   visual_result, context_result, g_current_step,
                   failed_steps, retry_count, final_result, g_errors,
                   should_retry, g_route, restarts, narrative_retries>>

GenerateNarrativeStep ==
    /\ GenAt("generate_narrative")
    /\ \E ok \in BOOLEAN :
         IF ok
         THEN /\ Succeeds
              /\ \E c \in {"content", "empty"} : narrative_result' = c
              /\ completed_steps' = completed_steps \cup {"generate_narrative"}
              /\ g_current_step' = "check_quality"
              /\ narrator_successes' = narrator_successes + 1
              /\ UNCHANGED <<g_errors, failed_steps, should_retry,
                             narrator_failures>>
         ELSE /\ CriticalFails
              /\ g_errors' = g_errors + 1
              /\ failed_steps' = failed_steps \cup {"generate_narrative"}
              /\ should_retry' = TRUE
              /\ narrator_failures' = narrator_failures + 1
              /\ UNCHANGED <<narrative_result, completed_steps,
                             g_current_step, narrator_successes>>
    /\ g_pc' = "check_quality"
    /\ UNCHANGED <<orchestration_result, quality_result, world_result,
                   visual_result, context_result, retry_count, final_result,
                   g_route, restarts, narrative_retries>>

CheckQualityStep ==
    /\ GenAt("check_quality")
    /\ IF narrative_result # "content"
       THEN /\ NoCall
            /\ g_errors' = g_errors + 1
            /\ UNCHANGED <<quality_result, completed_steps, failed_steps,
                           g_current_step>>
       ELSE \E ok \in BOOLEAN :
              IF ok
              THEN \E q \in NarrativeQualityResults :
                     /\ Succeeds
                     /\ quality_result' = [set |-> TRUE, has_score |-> q.has_score,
                                           score |-> q.score]
                     /\ completed_steps' = completed_steps \cup {"check_quality"}
                     /\ g_current_step' = IF include_images THEN "generate_visuals"
                                          ELSE "finalize_output"
                     /\ UNCHANGED <<g_errors, failed_steps>>
              ELSE /\ CriticalFails
                   /\ g_errors' = g_errors + 1
                   /\ failed_steps' = failed_steps \cup {"check_quality"}
                   /\ UNCHANGED <<quality_result, completed_steps, g_current_step>>
    /\ LET r == QualityCheckRouting(quality_result', retry_count, include_images)
       IN /\ g_route' = [router |-> "_quality_check_routing", decision |-> r]
          /\ g_pc' = QualityCheckEdge(r)
          /\ narrative_retries' = IF r = "retry_narrative"
                                  THEN narrative_retries + 1
                                  ELSE narrative_retries
    /\ NoNarrator
    /\ UNCHANGED <<orchestration_result, narrative_result, world_result,
                   visual_result, context_result, retry_count, final_result,
                   should_retry, restarts>>

GenerateVisualsStep ==
    /\ GenAt("generate_visuals")
    /\ \E ok \in BOOLEAN :
         IF ok
         THEN /\ Succeeds
              /\ visual_result' = "result"
              /\ completed_steps' = completed_steps \cup {"generate_visuals"}
         ELSE /\ Fails
              /\ visual_result' = "empty"
              /\ UNCHANGED completed_steps
    /\ g_current_step' = "finalize_output"
    /\ LET r == ShouldGenerateVisuals
       IN /\ g_route' = [router |-> "_should_generate_visuals", decision |-> r]
          /\ g_pc' = VisualsEdge(r)
    /\ NoNarrator
    /\ UNCHANGED <<orchestration_result, narrative_result, quality_result,
                   world_result, context_result, failed_steps, retry_count,
                   final_result, g_errors, should_retry, restarts,
                   narrative_retries>>

FinalizeOutputStep ==
    /\ GenAt("finalize_output")
    /\ NoCall
    /\ final_result' = "success"
    /\ completed_steps' = completed_steps \cup {"finalize_output"}
    /\ g_pc' = "END"
    /\ NoNarrator
    /\ UNCHANGED <<orchestration_result, narrative_result, quality_result,
                   world_result, visual_result, context_result,
                   g_current_step, failed_steps, retry_count, g_errors,
                   should_retry, g_route, restarts, narrative_retries>>

HandleErrorStep ==
    /\ GenAt("handle_error")
    /\ ErrorHandled
    /\ retry_count' = retry_count + 1
    /\ IF retry_count' < WorkflowRetryCap
       THEN /\ should_retry' = TRUE
            /\ g_current_step' = "orchestrate"
            /\ failed_steps' = {}
            /\ UNCHANGED final_result
       ELSE /\ final_result' = "exhausted"
            /\ UNCHANGED <<should_retry, g_current_step, failed_steps>>
    /\ LET r == ErrorRecoveryRouting(should_retry', final_result')
       IN /\ g_route' = [router |-> "_error_recovery_routing", decision |-> r]
          /\ g_pc' = ErrorRecoveryEdge(r)
          /\ restarts' = IF r = "retry" THEN restarts + 1 ELSE restarts
          /\ narrative_retries' = IF r = "retry" THEN 0 ELSE narrative_retries
    /\ NoNarrator
    /\ UNCHANGED <<orchestration_result, narrative_result, quality_result,
                   world_result, visual_result, context_result,
                   completed_steps, g_errors>>

\* workflow.ainvoke runs out of super-steps: GraphRecursionError, caught by
\* execute_workflow
GenRecursionError ==
    /\ wf = "gen"
    /\ g_pc \notin Terminal
    /\ g_steps >= RecursionLimit
    /\ g_pc' = "raised"
    /\ UNCHANGED <<wf, failures, unhandled_failure, cvars, auxvars, g_steps, include_images, orchestration_result,
                   narrative_result, quality_result, world_result,
                   visual_result, context_result, g_current_step,
                   completed_steps, failed_steps, retry_count, final_result,
                   g_errors, should_retry, g_route, restarts,
                   narrative_retries, narrator_failures, narrator_successes>>

GenNext ==
    \/ OrchestrateStep
    \/ AnalyzeContextStep
    \/ EnhanceWorldStep
    \/ GenerateNarrativeStep
    \/ CheckQualityStep
    \/ GenerateVisualsStep
    \/ FinalizeOutputStep
    \/ HandleErrorStep
    \/ GenRecursionError

\* ===================================================================
\*        what execute_workflow / execute_continuation_workflow return
\* ===================================================================

\* a dict with a "success" entry handed to the caller
ResultRecord(success) == [kind |-> "result", success |-> success]
\* an exception that propagates to the caller
Exception == [kind |-> "exception", success |-> FALSE]
\* ainvoke has not ended yet
Running == [kind |-> "running", success |-> FALSE]

\* _format_continuation_result: "success": len(errors) == 0
FormatContinuationResult(errs) == ResultRecord(errs = 0)

\* final_state.get("final_result", {}): the dict finalize_output or
\* handle_error stored
FinalResultRecord(fr) == ResultRecord(fr = "success")

\* a wrapper without the except clause around ainvoke
Execute_NoCatch(pc, value) ==
    CASE pc = "END"    -> value
      [] pc = "raised" -> Exception
      [] OTHER         -> Running

\* try: ainvoke, return the result; except Exception: return an error record
Execute(pc, value) ==
    CASE pc = "END"    -> value
      [] pc = "raised" -> ResultRecord(FALSE)
      [] OTHER         -> Running

ExecuteWorkflow == Execute(g_pc, FinalResultRecord(final_result))

ExecuteContinuationWorkflow == Execute(c_pc, FormatContinuationResult(c_errors))

\* ===================================================================
\*        _finalize_chapter: assembly of the final text and word count
\* ===================================================================

\* a text is a string over a letter and a blank; "NL" is the newline that
\* only the join separator contains
Chars == {"a", " "}
Whitespace == {" ", "NL"}
Texts == UNION {[1..n -> Chars] : n \in 0..MaxTextLen}

\* len(text.split()): the number of maximal runs of non-whitespace
Words(t) ==
    Cardinality({i \in 1..Len(t) :
        /\ t[i] \notin Whitespace
        /\ (i = 1 \/ t[i - 1] \in Whitespace)})

\* a segment as the narrator returns it: word_count = len(text.split())
NarratorResult(t) == [content |-> t, word_count |-> Words(t)]

SegmentLists ==
    UNION {[1..n -> {NarratorResult(t) : t \in Texts}] : n \in 0..MaxFinalSegments}

\* all_content = [previous_content] + [segment.get("content", "") ...]
AllContent(prev, completed) ==
    <<prev>> \o [i \in 1..Len(completed) |-> completed[i].content]

\* a filter that lets the empty pieces through
FilterNone_KeepAll(pieces) == pieces

\* filter(None, all_content)
FilterNone(pieces) == SelectSeq(pieces, LAMBDA piece : piece # <<>>)

\* "\n\n".join(pieces)
RECURSIVE Join(_)
Join(pieces) ==
    IF pieces = <<>> THEN <<>>
    ELSE IF Len(pieces) = 1 THEN pieces[1]
    ELSE pieces[1] \o <<"NL", "NL">> \o Join(Tail(pieces))

RECURSIVE SumWordCounts(_)
SumWordCounts(completed) ==
    IF completed = <<>> THEN 0
    ELSE Head(completed).word_count + SumWordCounts(Tail(completed))

\* a count that starts from the stored final_word_count
TotalWordCount_Accumulating(prev, completed) ==
    f_final_word_count + (IF prev # <<>> THEN Words(prev) ELSE 0)
        + SumWordCounts(completed)

TotalWordCount(prev, completed) ==
    (IF prev # <<>> THEN Words(prev) ELSE 0) + SumWordCounts(completed)

\* the reply before any request was made
NoResponse ==
    [status |-> 0, chapters |-> <<>>]

\* StoryManager.__init__: three empty dicts
EmptyStore == [i \in {} |-> 0]

ManagerIdle ==
    /\ stories = EmptyStore
    /\ characters = EmptyStore
    /\ relationships = EmptyStore
    /\ uuid_count = 0
    /\ response = NoResponse

\* the background task function has not written yet
BackgroundIdle == status_writes = <<>>

SegmentsIdle == first_content = <<>> /\ edits = <<>>

\* no concurrent executions
TasksIdle ==
    /\ t_states = <<>>
    /\ initialized = FALSE
    /\ agents_built = 0
    /\ initialize_runs = 0

\* the fields of the initial state, before any finalization
FinIdle ==
    /\ f_final_chapter_content = [set |-> FALSE, text |-> <<>>]
    /\ f_final_word_count = 0
    /\ f_continuation_context = FALSE
    /\ f_invocations = 0

FinalizeInit ==
    /\ wf = "finalize"
    /\ failures = 0
    /\ unhandled_failure = FALSE
    /\ ContInit
    /\ GenInit
    /\ previous_content \in Texts
    /\ f_completed_segments \in SegmentLists
    /\ FinIdle
    /\ TasksIdle
    /\ ManagerIdle
    /\ BackgroundIdle
    /\ SegmentsIdle

\* one call of _finalize_chapter; the continuity provider succeeds or fails
InvokeFinalizeChapter ==
    /\ wf = "finalize"
    /\ f_invocations < MaxInvocations
    /\ f_invocations' = f_invocations + 1
    /\ \E ok \in BOOLEAN :
          f_continuation_context' = IF ok THEN TRUE ELSE f_continuation_context
    /\ f_final_chapter_content' =
          [set |-> TRUE,
           text |-> Join(FilterNone(AllContent(previous_content,
                                               f_completed_segments)))]
    /\ f_final_word_count' =
          TotalWordCount(previous_content, f_completed_segments)
    /\ UNCHANGED <<wf, failures, unhandled_failure, cvars, gvars, tvars,
                   mvars, bvars, svars, previous_content,
                   f_completed_segments>>

FinalizeNext == InvokeFinalizeChapter

FinalizeSpec == FinalizeInit /\ [][FinalizeNext]_vars

\* ===================================================================
\*   two continuation executions interleaved at their await points
\* ===================================================================
Tasks == {1, 2}

\* the state dict execute_continuation_workflow builds for one call
\* (seamless mode, images off); pc "start" is the entry of
\* execute_chapter_continuation
InitialState(target) ==
    [pc |-> "start", steps |-> 0,
     target_segments |-> target,
     narrative_segments |-> <<>>, quality_checks |-> <<>>,
     current_segment |-> 0, completed_segments |-> <<>>,
     should_continue |-> TRUE, final_chapter_content |-> <<>>,
     errors |-> 0, warnings |-> 0]

\* the node handler at st.pc followed by the edge that leaves it; ok is the
\* outcome of the handler's provider call, q the reviewer's score
TaskStep(st, ok, q) ==
    CASE st.pc \in {"analyze_continuation_context", "plan_continuation"} ->
            [st EXCEPT !.pc = IF st.pc = "plan_continuation"
                               THEN "generate_segment" ELSE "plan_continuation",
                       !.errors = IF ok THEN @ ELSE @ + 1,
                       !.should_continue = IF ok THEN @ ELSE FALSE]
      [] st.pc = "generate_segment" ->
            [st EXCEPT !.pc = "check_segment_quality",
                       !.narrative_segments =
                           IF ok THEN Append(@, st.current_segment + 1) ELSE @,
                       !.errors = IF ok THEN @ ELSE @ + 1]
      [] st.pc = "check_segment_quality" ->
            LET checks == IF st.narrative_segments # <<>> /\ ok
                          THEN Append(st.quality_checks,
                                      [segment_number |-> st.current_segment + 1,
                                       has_score |-> TRUE, score |-> q])
                          ELSE st.quality_checks
            IN [st EXCEPT !.quality_checks = checks,
                          !.errors = IF st.narrative_segments = <<>>
                                     THEN @ + 1 ELSE @,
                          !.warnings = IF st.narrative_segments # <<>> /\ ~ok
                                       THEN @ + 1 ELSE @,
                          !.pc = QualityEdge(QualityRouting(checks,
                                                            st.current_segment))]
      [] st.pc = "update_world_context" ->
            [st EXCEPT !.pc = WorldUpdateEdge(WorldUpdateRouting(FALSE))]
      [] st.pc = "evaluate_continuation" ->
            LET sc == ShouldContinueGeneration(st.current_segment + 1,
                                               st.target_segments, st.errors,
                                               "seamless")
            IN [st EXCEPT !.completed_segments =
                              MarkCompleted(@, st.narrative_segments),
                          !.current_segment = @ + 1,
                          !.should_continue = sc,
                          !.pc = ContinuationEdge(ContinuationRouting(sc))]
      [] st.pc = "finalize_chapter" ->
            [st EXCEPT !.final_chapter_content =
                              FinalContent(st.completed_segments),
                       !.pc = "END"]
      [] st.pc = "handle_continuation_error" ->
            [st EXCEPT !.should_continue = FALSE,
                       !.pc = ErrorEdge(ErrorRouting(st.errors,
                                                     st.completed_segments))]

\* the handlers that await a provider
CallsProvider(st) ==
    \/ st.pc \in {"analyze_continuation_context", "plan_continuation",
                  "generate_segment", "update_world_context",
                  "finalize_chapter"}
    \/ st.pc = "check_segment_quality" /\ st.narrative_segments # <<>>

\* one state dict for the whole module instead of one per call
StoreState_Shared(states, t, st) == [u \in DOMAIN states |-> st]

\* every call works on the dict it passed to ainvoke
StoreState(states, t, st) == [states EXCEPT ![t] = st]

ConcurrentInit ==
    /\ wf = "tasks"
    /\ failures = 0
    /\ unhandled_failure = FALSE
    /\ ContInit
    /\ GenInit
    /\ previous_content = <<"a">>
    /\ f_completed_segments = <<>>
    /\ FinIdle
    /\ ManagerIdle
    /\ BackgroundIdle
    /\ SegmentsIdle
    /\ t_states \in [Tasks -> {InitialState(n) : n \in 1..MaxTaskTarget}]
    /\ initialized = FALSE
    /\ agents_built = 0
    /\ initialize_runs = 0

NoWorkflowStep ==
    UNCHANGED <<wf, unhandled_failure, cvars, gvars, fvars, mvars, bvars,
                svars>>

\* an entry that does not look at the flag
NeedsInitialize_Always(flag) == TRUE

\* if not chapter_workflow.initialized
NeedsInitialize(flag) == ~flag

\* initialize() returns, or raises before or after it has assigned
\* self.agents; only a return sets self.initialized
InitializeOutcomes == {"built", "raised", "raised_after_agents"}

\* if not chapter_workflow.initialized: await chapter_workflow.initialize().
\* get_vector_service and VectorService.initialize await nothing that
\* suspends, so the test and the whole of initialize() run without giving
\* the event loop to another execution.
EnterExecution(t) ==
    /\ wf = "tasks"
    /\ t_states[t].pc = "start"
    /\ IF NeedsInitialize(initialized)
       THEN \E outcome \in InitializeOutcomes :
              /\ outcome # "built" => failures < MaxTaskFailures
              /\ failures' = IF outcome = "built" THEN failures
                             ELSE failures + 1
              /\ initialize_runs' = initialize_runs + 1
              /\ agents_built' = IF outcome = "raised" THEN agents_built
                                 ELSE agents_built + 1
              /\ initialized' = (initialized \/ outcome = "built")
              /\ t_states' = StoreState(t_states, t,
                    [t_states[t] EXCEPT !.pc =
                        IF outcome = "built"
                        THEN "analyze_continuation_context" ELSE "raised"])
       ELSE /\ t_states' = StoreState(t_states, t,
                  [t_states[t] EXCEPT !.pc = "analyze_continuation_context"])
            /\ UNCHANGED <<failures, initialized, agents_built,
                           initialize_runs>>
    /\ NoWorkflowStep

\* one super-step of task t's ainvoke
TaskSuperStep(t) ==
    /\ wf = "tasks"
    /\ t_states[t].pc \notin Terminal \cup {"start"}
    /\ t_states[t].steps < RecursionLimit
    /\ \E ok \in BOOLEAN, q \in {69, 70} :
          LET st == t_states[t]
              called == [st EXCEPT !.steps = @ + 1]
          IN /\ ~ok => CallsProvider(st) /\ failures < MaxTaskFailures
             /\ failures' = IF ok THEN failures ELSE failures + 1
             /\ t_states' = StoreState(t_states, t, TaskStep(called, ok, q))
    /\ UNCHANGED <<initialized, agents_built, initialize_runs>>
    /\ NoWorkflowStep

ConcurrentNext ==
    \E t \in Tasks :
        \/ EnterExecution(t)
        \/ TaskSuperStep(t)

ConcurrentSpec == ConcurrentInit /\ [][ConcurrentNext]_vars

\* ===================================================================
\*   the story manager behind the CRUD endpoints
\*   (story_manager.py, main.py).  One action is one request: the endpoint
\*   together with the StoryManager method it calls.  Timestamps are left
\*   out; they are written on the success paths only.

\* uuid.uuid4() never returns a value twice: the ids are handed out in turn.
\* A request may carry any id, handed out or not.
IdBound == IF wf = "chapters" THEN MaxChapterIds ELSE MaxIds
Ids == 1..IdBound
NewId == uuid_count + 1

\* the three clients: one uses the story, character, chapter and
\* relationship endpoints, one stories and chapters only, one stories and
\* segments only
ManagerModes == {"manager", "chapters", "segments"}

StoryTitles == {"t0"}
Titles == {"t0", "t1"}
Names == {"n0", "n1"}
RelationshipTypes == {"friend"}

\* update_character takes the request body, any JSON object, as **kwargs
CharacterPayloadKeys == {{"name"}, {"character_id"}, {"name", "character_id"}}

Reply(status) == [status |-> status, chapters |-> <<>>]

\* d[key] = value
Put(d, key, value) ==
    [i \in DOMAIN d \cup {key} |-> IF i = key THEN value ELSE d[i]]

\* del d[key]
Del(d, key) == [i \in DOMAIN d \ {key} |-> d[i]]

HasStory(story_id) == story_id \in DOMAIN stories

ChapterIds(chapters) == {chapters[i].id : i \in DOMAIN chapters}

HasChapter(story_id, chapter_id) ==
    /\ HasStory(story_id)
    /\ chapter_id \in ChapterIds(stories[story_id].chapters)

\* position of chapters[i] in sorted(chapters, key=lambda x: x.order);
\* sorted is stable
Rank(chapters, i) ==
    Cardinality({j \in DOMAIN chapters :
                    \/ chapters[j].order < chapters[i].order
                    \/ chapters[j].order = chapters[i].order /\ j < i}) + 1

SortedByOrder(chapters) ==
    [k \in DOMAIN chapters |->
        chapters[CHOOSE i \in DOMAIN chapters : Rank(chapters, i) = k]]

\* get_story_chapters
GetStoryChapters(story_id) ==
    IF HasStory(story_id) THEN SortedByOrder(stories[story_id].chapters)
    ELSE <<>>

\* [c for c in story.chapters if c.id != chapter_id]
WithoutChapter(chapters, chapter_id) ==
    SelectSeq(chapters, LAMBDA c : c.id # chapter_id)

Reorder_Keep(chapters) == chapters

\* for i, chapter in enumerate(sorted(...)): chapter.order = i + 1
Reorder(chapters) ==
    [i \in DOMAIN chapters |-> [chapters[i] EXCEPT !.order = Rank(chapters, i)]]

\* [c for c in story.characters if c.id != character_id], for every story
WithoutCharacter(character_id) ==
    [s \in DOMAIN stories |->
        [stories[s] EXCEPT !.characters =
            SelectSeq(@, LAMBDA c : c # character_id)]]

ManagerInit ==
    /\ wf = "manager"
    /\ failures = 0
    /\ unhandled_failure = FALSE
    /\ ContInit
    /\ GenInit
    /\ previous_content = <<"a">>
    /\ f_completed_segments = <<>>
    /\ FinIdle
    /\ TasksIdle
    /\ ManagerIdle
    /\ BackgroundIdle
    /\ SegmentsIdle

NoManagerEffect == UNCHANGED <<stories, characters, relationships, uuid_count>>

OutsideManager ==
    UNCHANGED <<wf, failures, unhandled_failure, cvars, gvars, fvars, tvars,
                bvars, svars>>

\* ---- stories
CreateStory ==
    /\ wf \in ManagerModes
    /\ uuid_count < IdBound
    /\ uuid_count' = NewId
    /\ stories' = Put(stories, NewId,
                      [title |-> "none", chapters |-> <<>>, characters |-> <<>>,
                       segments |-> <<>>])
    /\ response' = Reply(200)
    /\ UNCHANGED <<characters, relationships>>
    /\ OutsideManager

GetStory(story_id) ==
    /\ wf \in ManagerModes
    /\ response' = Reply(IF HasStory(story_id) THEN 200 ELSE 404)
    /\ NoManagerEffect
    /\ OutsideManager

UpdateStory(story_id, title) ==
    /\ wf \in ManagerModes
    /\ IF HasStory(story_id)
       THEN /\ stories' = [stories EXCEPT ![story_id].title = title]
            /\ response' = Reply(200)
       ELSE /\ UNCHANGED stories
            /\ response' = Reply(404)
    /\ UNCHANGED <<characters, relationships, uuid_count>>
    /\ OutsideManager

DeleteStory(story_id) ==
    /\ wf \in ManagerModes
    /\ IF HasStory(story_id)
       THEN /\ stories' = Del(stories, story_id)
            /\ response' = Reply(200)
       ELSE /\ UNCHANGED stories
            /\ response' = Reply(404)
    /\ UNCHANGED <<characters, relationships, uuid_count>>
    /\ OutsideManager

\* the character in the request body carries the id the client chose:
\* that of a stored character, or none (0)
AddCharacterToStory(story_id, character_id) ==
    /\ wf \in ManagerModes
    /\ IF /\ HasStory(story_id)
          /\ Len(stories[story_id].characters) < StoryCharacterCap
       THEN /\ Len(stories[story_id].characters) < MaxStoryCharacters
            /\ stories' = [stories EXCEPT ![story_id].characters =
                                              Append(@, character_id)]
            /\ response' = Reply(200)
       ELSE /\ UNCHANGED stories
            /\ response' = Reply(400)
    /\ UNCHANGED <<characters, relationships, uuid_count>>
    /\ OutsideManager

\* ---- characters
CreateCharacter(name) ==
    /\ wf \in ManagerModes
    /\ uuid_count < IdBound
    /\ uuid_count' = NewId
    /\ characters' = Put(characters, NewId, [name |-> name])
    /\ response' = Reply(200)
    /\ UNCHANGED <<stories, relationships>>
    /\ OutsideManager

GetCharacter(character_id) ==
    /\ wf \in ManagerModes
    /\ response' = Reply(IF character_id \in DOMAIN characters THEN 200 ELSE 404)
    /\ NoManagerEffect
    /\ OutsideManager

\* story_manager.update_character(character_id, **character_data): a body
\* with the key character_id makes the call itself raise TypeError, which
\* no handler catches
UpdateCharacter(character_id, keys, name) ==
    /\ wf \in ManagerModes
    /\ IF "character_id" \in keys
       THEN /\ UNCHANGED characters
            /\ response' = Reply(500)
       ELSE IF character_id \in DOMAIN characters
       THEN /\ characters' = [characters EXCEPT ![character_id].name =
                                 IF "name" \in keys THEN name ELSE @]
            /\ response' = Reply(200)
       ELSE /\ UNCHANGED characters
            /\ response' = Reply(404)
    /\ UNCHANGED <<stories, relationships, uuid_count>>
    /\ OutsideManager

DeleteCharacter(character_id) ==
    /\ wf \in ManagerModes
    /\ IF character_id \in DOMAIN characters
       THEN /\ characters' = Del(characters, character_id)
            /\ stories' = WithoutCharacter(character_id)
            /\ response' = Reply(200)
       ELSE /\ UNCHANGED <<characters, stories>>
            /\ response' = Reply(404)
    /\ UNCHANGED <<relationships, uuid_count>>
    /\ OutsideManager

\* ---- chapters
ListChapters(story_id) ==
    /\ wf \in ManagerModes
    /\ response' = [Reply(IF HasStory(story_id) THEN 200 ELSE 404)
                       EXCEPT !.chapters = GetStoryChapters(story_id)]
    /\ NoManagerEffect
    /\ OutsideManager

CreateChapter(story_id, title) ==
    /\ wf \in ManagerModes
    /\ IF HasStory(story_id)
       THEN /\ uuid_count < IdBound
            /\ uuid_count' = NewId
            /\ stories' = [stories EXCEPT ![story_id].chapters =
                  Append(@, [id |-> NewId, title |-> title,
                             order |-> Len(@) + 1])]
            /\ response' = Reply(200)
       ELSE /\ UNCHANGED <<stories, uuid_count>>
            /\ response' = Reply(404)
    /\ UNCHANGED <<characters, relationships>>
    /\ OutsideManager

GetChapter(story_id, chapter_id) ==
    /\ wf \in ManagerModes
    /\ response' = Reply(IF HasChapter(story_id, chapter_id) THEN 200 ELSE 404)
    /\ NoManagerEffect
    /\ OutsideManager

UpdateChapter(story_id, chapter_id, title) ==
    /\ wf \in ManagerModes
    /\ IF HasChapter(story_id, chapter_id)
       THEN /\ stories' = [stories EXCEPT ![story_id].chapters =
                  [i \in DOMAIN @ |->
                      IF @[i].id = chapter_id /\ \A j \in 1..(i - 1) : @[j].id # chapter_id
                      THEN [@[i] EXCEPT !.title = title]
                      ELSE @[i]]]
            /\ response' = Reply(200)
       ELSE /\ UNCHANGED stories
            /\ response' = Reply(404)
    /\ UNCHANGED <<characters, relationships, uuid_count>>
    /\ OutsideManager

DeleteChapter(story_id, chapter_id) ==
    /\ wf \in ManagerModes
    /\ IF ~HasStory(story_id)
       THEN /\ UNCHANGED stories
            /\ response' = Reply(404)
       ELSE LET remaining == WithoutChapter(stories[story_id].chapters, chapter_id)
            IN IF Len(remaining) = Len(stories[story_id].chapters)
               THEN /\ stories' = [stories EXCEPT ![story_id].chapters = remaining]
                    /\ response' = Reply(404)
               ELSE /\ stories' = [stories EXCEPT ![story_id].chapters =
                                                     Reorder(remaining)]
                    /\ response' = Reply(200)
    /\ UNCHANGED <<characters, relationships, uuid_count>>
    /\ OutsideManager

\* ---- relationships
CreateRelationship(character1_id, character2_id, type) ==
    /\ wf \in ManagerModes
    /\ IF {character1_id, character2_id} \subseteq DOMAIN characters
       THEN /\ uuid_count < IdBound
            /\ uuid_count' = NewId
            /\ relationships' = Put(relationships, NewId,
                  [character1_id |-> character1_id,
                   character2_id |-> character2_id, type |-> type])
            /\ response' = Reply(200)
       ELSE /\ UNCHANGED <<relationships, uuid_count>>
            /\ response' = Reply(404)
    /\ UNCHANGED <<stories, characters>>
    /\ OutsideManager

GetRelationship(relationship_id) ==
    /\ wf \in ManagerModes
    /\ response' = Reply(IF relationship_id \in DOMAIN relationships THEN 200 ELSE 404)
    /\ NoManagerEffect
    /\ OutsideManager

UpdateRelationship(relationship_id, character1_id, character2_id, type) ==
    /\ wf \in ManagerModes
    /\ IF relationship_id \in DOMAIN relationships
       THEN /\ relationships' = [relationships EXCEPT ![relationship_id] =
                  [character1_id |-> character1_id,
                   character2_id |-> character2_id, type |-> type]]
            /\ response' = Reply(200)
       ELSE /\ UNCHANGED relationships
            /\ response' = Reply(404)
    /\ UNCHANGED <<stories, characters, uuid_count>>
    /\ OutsideManager

DeleteRelationship(relationship_id) ==
    /\ wf \in ManagerModes
    /\ IF relationship_id \in DOMAIN relationships
       THEN /\ relationships' = Del(relationships, relationship_id)
            /\ response' = Reply(200)
       ELSE /\ UNCHANGED relationships
            /\ response' = Reply(404)
    /\ UNCHANGED <<stories, characters, uuid_count>>
    /\ OutsideManager

ManagerNext ==
    \/ CreateStory
    \/ \E story_id \in Ids : GetStory(story_id)
    \/ \E story_id \in Ids, title \in StoryTitles : UpdateStory(story_id, title)
    \/ \E story_id \in Ids : DeleteStory(story_id)
    \/ \E story_id \in Ids, character_id \in DOMAIN characters \cup {0} :
          AddCharacterToStory(story_id, character_id)
    \/ \E name \in Names : CreateCharacter(name)
    \/ \E character_id \in Ids : GetCharacter(character_id)
    \/ \E character_id \in Ids, keys \in CharacterPayloadKeys, name \in Names :
          UpdateCharacter(character_id, keys, name)
    \/ \E character_id \in Ids : DeleteCharacter(character_id)
    \/ \E story_id \in Ids : ListChapters(story_id)
    \/ \E story_id \in Ids, title \in Titles : CreateChapter(story_id, title)
    \/ \E story_id \in Ids, chapter_id \in Ids : GetChapter(story_id, chapter_id)
    \/ \E story_id \in Ids, chapter_id \in Ids, title \in Titles :
          UpdateChapter(story_id, chapter_id, title)
    \/ \E story_id \in Ids, chapter_id \in Ids :
          DeleteChapter(story_id, chapter_id)
    \/ \E character1_id \in Ids, character2_id \in Ids, type \in RelationshipTypes :
          CreateRelationship(character1_id, character2_id, type)
    \/ \E relationship_id \in Ids : GetRelationship(relationship_id)
    \/ \E relationship_id \in Ids, character1_id \in Ids, character2_id \in Ids,
          type \in RelationshipTypes :
          UpdateRelationship(relationship_id, character1_id, character2_id, type)
    \/ \E relationship_id \in Ids : DeleteRelationship(relationship_id)

ManagerSpec == ManagerInit /\ [][ManagerNext]_vars

\* a client that works on stories and their chapters only
ChapterNext ==
    \/ CreateStory
    \/ \E story_id \in Ids, title \in StoryTitles : UpdateStory(story_id, title)
    \/ \E story_id \in Ids : DeleteStory(story_id)
    \/ \E story_id \in Ids : ListChapters(story_id)
    \/ \E story_id \in Ids, title \in Titles : CreateChapter(story_id, title)
    \/ \E story_id \in Ids, chapter_id \in Ids : GetChapter(story_id, chapter_id)
    \/ \E story_id \in Ids, chapter_id \in Ids, title \in Titles :
          UpdateChapter(story_id, chapter_id, title)
    \/ \E story_id \in Ids, chapter_id \in Ids :
          DeleteChapter(story_id, chapter_id)

ChapterInit ==
    /\ wf = "chapters"
    /\ failures = 0
    /\ unhandled_failure = FALSE
    /\ ContInit
    /\ GenInit
    /\ previous_content = <<"a">>
    /\ f_completed_segments = <<>>
    /\ FinIdle
    /\ TasksIdle
    /\ ManagerIdle
    /\ BackgroundIdle
    /\ SegmentsIdle

ChapterSpec == ChapterInit /\ [][ChapterNext]_vars

\* ---- segments: POST /stories/generate/ and POST /stories/edit/
\* the texts the LLM service returns
Contents == {"c0", "c1"}

SegmentIds(segments) == {segments[i].id : i \in DOMAIN segments}

\* get_segment finds one
HasSegment(story_id, segment_id) ==
    /\ HasStory(story_id)
    /\ segment_id \in SegmentIds(stories[story_id].segments)

\* an edit that takes the content it replaces for the original each time
EditedSegment_Overwrite(segment, new_content) ==
    [segment EXCEPT !.original_content = segment.content,
                    !.content = new_content,
                    !.is_edited = TRUE]

\* the body of the loop of edit_segment for the segment it found
EditedSegment(segment, new_content) ==
    [segment EXCEPT !.original_content =
                        IF ~segment.is_edited THEN segment.content ELSE @,
                    !.content = new_content,
                    !.is_edited = TRUE]

\* StoryManager.edit_segment: what it returns and self.stories afterwards;
\* the loop returns at the first segment with the id
EditSegment(story_id, segment_id, new_content) ==
    IF ~HasStory(story_id)
    THEN [returned |-> FALSE, stories |-> stories]
    ELSE LET segments == stories[story_id].segments
             found == {i \in DOMAIN segments : segments[i].id = segment_id}
         IN IF found = {}
            THEN [returned |-> FALSE, stories |-> stories]
            ELSE LET first == CHOOSE i \in found : \A j \in found : i <= j
                 IN [returned |-> TRUE,
                     stories |->
                        [stories EXCEPT ![story_id].segments[first] =
                            EditedSegment(@, new_content)]]

\* generate_story_segment: 404 for an unknown story, 500 when the LLM
\* service raises, otherwise add_segment
GenerateStorySegment(story_id, content) ==
    /\ wf \in ManagerModes
    /\ IF ~HasStory(story_id)
       THEN /\ response' = Reply(404)
            /\ UNCHANGED <<stories, uuid_count, first_content, edits>>
       ELSE \E ok \in BOOLEAN :
              IF ok
              THEN /\ uuid_count < IdBound
                   /\ uuid_count' = NewId
                   /\ stories' = [stories EXCEPT ![story_id].segments =
                         Append(@, [id |-> NewId, content |-> content,
                                    order |-> Len(@) + 1,
                                    is_edited |-> FALSE,
                                    original_content |-> "None"])]
                   /\ first_content' = Put(first_content, NewId, content)
                   /\ edits' = Put(edits, NewId, 0)
                   /\ response' = Reply(200)
              ELSE /\ response' = Reply(500)
                   /\ UNCHANGED <<stories, uuid_count, first_content, edits>>
    /\ UNCHANGED <<characters, relationships>>
    /\ UNCHANGED <<wf, failures, unhandled_failure, cvars, gvars, fvars, tvars,
                   bvars>>

\* edit_story_segment: 404 when get_segment finds nothing, 500 when the LLM
\* service raises or edit_segment returns False, otherwise the edit
EditStorySegment(story_id, segment_id, edited_content) ==
    /\ wf \in ManagerModes
    /\ IF ~HasSegment(story_id, segment_id)
       THEN /\ response' = Reply(404)
            /\ UNCHANGED <<stories, edits>>
       ELSE \E ok \in BOOLEAN :
              IF ok
              THEN LET edit == EditSegment(story_id, segment_id, edited_content)
                   IN /\ stories' = edit.stories
                      /\ edits' = IF edit.returned /\ edits[segment_id] < MaxEdits
                                  THEN [edits EXCEPT ![segment_id] = @ + 1]
                                  ELSE edits
                      /\ response' = Reply(IF edit.returned THEN 200 ELSE 500)
              ELSE /\ response' = Reply(500)
                   /\ UNCHANGED <<stories, edits>>
    /\ UNCHANGED <<characters, relationships, uuid_count, first_content>>
    /\ UNCHANGED <<wf, failures, unhandled_failure, cvars, gvars, fvars, tvars,
                   bvars>>

SegmentNext ==
    \/ CreateStory
    \/ \E story_id \in Ids : DeleteStory(story_id)
    \/ \E story_id \in Ids, content \in Contents :
          GenerateStorySegment(story_id, content)
    \/ \E story_id \in Ids, segment_id \in Ids, edited_content \in Contents :
          EditStorySegment(story_id, segment_id, edited_content)

SegmentInit ==
    /\ wf = "segments"
    /\ failures = 0
    /\ unhandled_failure = FALSE
    /\ ContInit
    /\ GenInit
    /\ previous_content = <<"a">>
    /\ f_completed_segments = <<>>
    /\ FinIdle
    /\ TasksIdle
    /\ ManagerIdle
    /\ BackgroundIdle
    /\ SegmentsIdle

SegmentSpec == SegmentInit /\ [][SegmentNext]_vars

\* ===================================================================
Init ==
    /\ wf \in {"gen", "cont"}
    /\ failures = 0
    /\ unhandled_failure = FALSE
    /\ ContInit
    /\ GenInit
    /\ previous_content = <<"a">>
    /\ f_completed_segments = <<>>
    /\ FinIdle
    /\ TasksIdle
    /\ ManagerIdle
    /\ BackgroundIdle
    /\ SegmentsIdle

Next == ContNext \/ GenNext

Spec == Init /\ [][Next]_vars

\* the engine keeps scheduling the next super-step until it stops
FairSpec == Spec /\ WF_vars(Next)

\* a continuation requested for a chapter without content: chapter.content
\* is passed on as previous_content as it is (api_routes.py:418, 927)
NoPriorContentInit ==
    /\ wf = "cont"
    /\ failures = 0
    /\ unhandled_failure = FALSE
    /\ ContInit
    /\ GenInit
    /\ previous_content = <<>>
    /\ f_completed_segments = <<>>
    /\ FinIdle
    /\ TasksIdle
    /\ ManagerIdle
    /\ BackgroundIdle
    /\ SegmentsIdle

NoPriorContentSpec == NoPriorContentInit /\ [][ContNext]_vars

\* ===================================================================
\*   _execute_generation_workflow / _execute_continuation_workflow:
\*   the background task around one execution (api_routes.py).  An update
\*   of generation_tasks is a request to the database service: it is
\*   applied, or it raises and is not.

\* what execute_story_generation / execute_chapter_continuation returned
WorkflowResult ==
    IF wf = "gen" THEN ExecuteWorkflow ELSE ExecuteContinuationWorkflow

WorkflowStarted == IF wf = "gen" THEN g_steps > 0 ELSE c_steps > 0

Update(status, raised) == [status |-> status, raised |-> raised]

\* the task function is inside its try block, awaiting the workflow
AwaitingWorkflow == status_writes = <<Update("processing", FALSE)>>

\* a status that does not look at the result
TerminalStatus_AlwaysCompleted(result) == "completed"

\* "completed" if result.get("success") else "failed"
TerminalStatus(result) == IF result.success THEN "completed" ELSE "failed"

OutsideBackground ==
    UNCHANGED <<wf, failures, unhandled_failure, cvars, gvars, fvars, tvars,
                mvars, svars>>

\* except Exception: update({"status": "failed", ...}); an exception of
\* this update leaves the task function
ExceptClause(writes) ==
    \E raised \in BOOLEAN :
        status_writes' = Append(writes, Update("failed", raised))

\* update({"status": "processing", ...}) before the workflow is called
WriteProcessing ==
    /\ wf \in {"gen", "cont"}
    /\ status_writes = <<>>
    /\ \/ status_writes' = <<Update("processing", FALSE)>>
       \/ ExceptClause(<<Update("processing", TRUE)>>)
    /\ OutsideBackground

\* the call raises before ainvoke is entered (initialize() re-raises what
\* went wrong)
WorkflowCallRaises ==
    /\ wf \in {"gen", "cont"}
    /\ AwaitingWorkflow
    /\ ~WorkflowStarted
    /\ ExceptClause(status_writes)
    /\ OutsideBackground

\* a super-step of the workflow the task function awaits
RunWorkflow ==
    /\ AwaitingWorkflow
    /\ Next

\* the call has returned: update(update_data) with the terminal status
WriteTerminal ==
    /\ wf \in {"gen", "cont"}
    /\ AwaitingWorkflow
    /\ WorkflowResult.kind = "result"
    /\ LET status == TerminalStatus(WorkflowResult)
       IN \/ status_writes' = Append(status_writes, Update(status, FALSE))
          \/ ExceptClause(Append(status_writes, Update(status, TRUE)))
    /\ OutsideBackground

BackgroundNext ==
    \/ WriteProcessing
    \/ WorkflowCallRaises
    \/ RunWorkflow
    \/ WriteTerminal

BackgroundSpec == Init /\ [][BackgroundNext]_vars

\* ===================================================================
\*                         claims
\* ===================================================================

\* C1: the continuation workflow reaches finalize_chapter or END after at
\* most target_segments + 5 router decisions.
C1_TerminationBound ==
    wf = "cont" => c_decisions <= target_segments + 5

\* C2: every single-shot execution eventually reaches END; neither
\* handle_error -> orchestrate nor check_quality -> generate_narrative
\* repeats forever.
C2_EventuallyEnd ==
    (wf = "gen") => <>(g_pc = "END")

\* C3: when the narrator has failed on each of its 4 calls, retry_count has
\* reached 3 and not more, errors holds 4 entries and not more, and the
\* workflow ends at END with the exhausted failure result.
C3_NarratorOutage ==
    (wf = "gen" /\ narrator_failures = 4 /\ narrator_successes = 0) =>
        /\ retry_count <= 3
        /\ g_errors <= 4
        /\ g_pc \in Terminal =>
              /\ g_pc = "END"
              /\ final_result = "exhausted"
              /\ retry_count = 3
              /\ g_errors = 4

\* C4: never more than 3 whole-workflow restarts (handle_error -> orchestrate)
\* and retry_count never above 3.
C4_RestartBound ==
    restarts <= 3 /\ retry_count <= 3

\* C5: the quality router answers "regenerate" at most once per segment number.
C5_RegenerateOnce ==
    \A n \in 1..MaxSeg : regenerations[n] <= 1

\* C6: the single-shot quality router answers "retry_narrative" at most once
\* per output.
C6_RetryNarrativeOnce ==
    narrative_retries <= 1

\* the reviewer returned a result in this step
GenReviewed ==
    /\ wf = "gen"
    /\ g_pc = "check_quality"
    /\ g_steps' = g_steps + 1
    /\ narrative_result = "content"
    /\ failures' = failures

ContReviewed ==
    /\ wf = "cont"
    /\ c_pc = "check_segment_quality"
    /\ Len(quality_checks') = Len(quality_checks) + 1

LatestQuality == quality_checks[Len(quality_checks)]

ContGate70 ==
    /\ (/\ ContReviewed
        /\ CountSeg(quality_checks', current_segment + 1) = 1
        /\ OverallScore(LatestQuality') < SegmentQualityThreshold)
          => c_route'.decision = "regenerate"
    /\ (ContReviewed /\ OverallScore(LatestQuality') >= SegmentQualityThreshold)
          => c_route'.decision # "regenerate"

\* C7 (as claimed): both quality gates use 0.7: a first result below 0.7 is
\* routed to regeneration, a result of 0.7 or more never is.
C7_BothGates70 ==
    [][/\ ContGate70
       /\ (/\ GenReviewed
           /\ ~quality_result.set
           /\ OverallScore(quality_result') < SegmentQualityThreshold)
             => g_route'.decision = "retry_narrative"
       /\ (GenReviewed /\ OverallScore(quality_result') >= SegmentQualityThreshold)
             => g_route'.decision # "retry_narrative"]_vars

\* C7 (amended): the continuation gate uses 0.7 (a segment number's first
\* result below 0.7 is regenerated, a result of 0.7 or more never is); the
\* single-shot gate uses 0.6: a result below 0.6 is routed to
\* retry_narrative while retry_count < 2, a result of 0.6 or more never is.
C7_GateThresholds ==
    [][/\ ContGate70
       /\ (/\ GenReviewed
           /\ retry_count < NarrativeRetryCap
           /\ OverallScore(quality_result') < NarrativeQualityThreshold)
             => g_route'.decision = "retry_narrative"
       /\ (GenReviewed /\ OverallScore(quality_result') >= NarrativeQualityThreshold)
             => g_route'.decision # "retry_narrative"]_vars

\* a narrative scored 0.6 is accepted after an earlier one was sent back
C7_Witness ==
    /\ wf = "gen"
    /\ narrative_retries = 1
    /\ quality_result = [set |-> TRUE, has_score |-> TRUE, score |-> 60]
    /\ g_route = [router |-> "_quality_check_routing", decision |-> "finalize"]

\* C8: when the continuation router chooses finalize,
\* current_segment <= target_segments.
C8_SegmentWithinTarget ==
    (/\ wf = "cont"
     /\ c_route = [router |-> "_continuation_routing", decision |-> "finalize"])
        => current_segment <= target_segments

\* C9: current_segment never decreases, and it grows by exactly 1 in the
\* steps that append a segment to completed_segments and in no other step.
C9_MonotonicProgress ==
    [][/\ current_segment' >= current_segment
       /\ \/ /\ completed_segments' = completed_segments
             /\ current_segment' = current_segment
          \/ /\ \E i \in 1..Len(narrative_segments) :
                   completed_segments' = Append(completed_segments, i)
             /\ current_segment' = current_segment + 1]_vars

\* two segments accepted, counter at 2
C9_Witness ==
    /\ wf = "cont"
    /\ current_segment = 2
    /\ Len(completed_segments) = 2
    /\ c_pc = "generate_segment"

\* the segments in completed_segments are accepted ones
C10_OnlyAccepted ==
    \A k \in 1..Len(completed_segments) : completed_segments[k] \in accepted

\* C10: completed_segments is append-only, holds only segments that passed
\* the quality gate or the regeneration-exhaustion fallback, and after each
\* evaluate_continuation its length is the number of such segments.
C10_CompletedAreAccepted ==
    [][/\ \/ completed_segments' = completed_segments
          \/ \E i \in 1..Len(narrative_segments) :
                completed_segments' = Append(completed_segments, i)
       /\ C10_OnlyAccepted'
       /\ (c_pc = "evaluate_continuation" /\ c_steps' = c_steps + 1)
             => Len(completed_segments') = Cardinality(accepted')]_vars

\* C11: final_result is written at most once, only by finalize_output or by
\* handle_error when it ends the execution, and no step runs after the write.
C11_FinalResultOnce ==
    [][(wf = "gen") =>
          /\ (final_result # "none") =>
                /\ g_steps' = g_steps
                /\ final_result' = final_result
          /\ (final_result' # final_result) =>
                \/ g_pc = "finalize_output"
                \/ g_pc = "handle_error" /\ g_pc' = "END"]_vars

\* every quality result so far is at or above the segment gate
AllScoresPass ==
    \A i \in 1..Len(quality_checks) : EvaluateSegmentQuality(quality_checks[i])

\* the segments 1..n in generation order
InOrder(n) == [i \in 1..n |-> i]

LowChecks ==
    {i \in 1..Len(quality_checks) : ~EvaluateSegmentQuality(quality_checks[i])}

\* the execution has ended, no provider call failed, and exactly one quality
\* result (the i-th) was below 0.7: the first one of its segment number, whose
\* regenerated version (the next result) scored 0.7 or more
RegeneratedOnceAt(i) ==
    /\ wf = "cont"
    /\ c_pc = "END"
    /\ failures = 0
    /\ LowChecks = {i}
    /\ i < Len(quality_checks)
    /\ quality_checks[i + 1].segment_number = quality_checks[i].segment_number

\* one regeneration, of segment number n; the only completed entry with that
\* number is the regenerated dict i + 1; no warnings
RegeneratedOnly(i) ==
    LET n == quality_checks[i].segment_number
    IN /\ \A m \in 1..MaxSeg : regenerations[m] = IF m = n THEN 1 ELSE 0
       /\ warnings = 0
       /\ Cardinality({k \in 1..Len(completed_segments) :
             narrative_segments[completed_segments[k]].segment_number = n}) = 1
       /\ \E k \in 1..Len(completed_segments) : completed_segments[k] = i + 1
       /\ \A k \in 1..Len(completed_segments) : completed_segments[k] # i
       /\ narrative_segments[i + 1].quality_passed = "yes"

SecondLowScore ==
    /\ ContReviewed
    /\ CountSeg(quality_checks', current_segment + 1) = 2
    /\ ~EvaluateSegmentQuality(LatestQuality')
    /\ ~EvaluateSegmentQuality(LatestQuality)
    /\ LatestQuality.segment_number = current_segment + 1
    /\ LET last == Len(narrative_segments)
       IN /\ last >= 2
          /\ narrative_segments[last].quality_passed = "unset"
          /\ narrative_segments[last - 1].quality_passed = "no"
          /\ narrative_segments[last - 1].segment_number = current_segment + 1

\* C14: a segment scored below 0.7 on its first attempt and on its single
\* regeneration is accepted (sent on, not regenerated again, and appended to
\* completed_segments by the evaluation step), and the step that accepts it
\* adds an entry to warnings.
C14_SubThresholdAcceptance ==
    [][/\ SecondLowScore =>
             /\ c_route'.decision = "continue"
             /\ warnings' = warnings + 1
       /\ (/\ wf = "cont"
           /\ c_pc = "evaluate_continuation"
           /\ c_steps' = c_steps + 1
           /\ c_route = [router |-> "_quality_routing", decision |-> "continue"])
             => completed_segments' =
                   Append(completed_segments, Len(narrative_segments))]_vars

\* the world-building or visual-generation provider returned a failure in
\* this step
EnrichmentFailed ==
    /\ failures' = failures + 1
    /\ \/ wf = "gen" /\ g_pc \in {"enhance_world", "generate_visuals"}
       \/ wf = "cont" /\ c_pc \in {"update_world_context",
                                   "generate_segment_visuals"}

\* the step the graph runs after an enrichment step
AfterEnrichment ==
    IF wf = "gen"
    THEN g_pc' = (IF g_pc = "enhance_world" THEN "generate_narrative"
                  ELSE "finalize_output")
    ELSE c_pc' = (IF c_pc = "update_world_context" /\ image_enabled
                  THEN "generate_segment_visuals"
                  ELSE "evaluate_continuation")

\* C15: a failure of the world-building or visual-generation provider adds
\* nothing to errors, is no critical failure, and leaves the workflow on its
\* normal path: the step after the enrichment step is scheduled as after a
\* success.
C15_EnrichmentNeverBlocks ==
    [][EnrichmentFailed =>
          /\ g_errors' = g_errors
          /\ c_errors' = c_errors
          /\ unhandled_failure' = unhandled_failure
          /\ AfterEnrichment]_vars

\* a single-shot execution produced its final result without errors although
\* both enrichment providers failed
C15_Witness ==
    /\ wf = "gen"
    /\ world_result = "empty"
    /\ visual_result = "empty"
    /\ final_result = "success"
    /\ g_errors = 0
    /\ g_pc = "END"

\* C16: after a step of the continuation workflow in which the world-building
\* or visual-generation provider returned a failure, warnings is one entry
\* longer than before the step. (StoryGenerationState has no warnings list.)
C16_EnrichmentFailureWarned ==
    [][(EnrichmentFailed /\ wf = "cont") => warnings' = warnings + 1]_vars

\* the planner, the continuity tracker of the analysis step, the narrator or
\* the reviewer returned a failure in this step
CriticalFailed ==
    /\ failures' = failures + 1
    /\ \/ wf = "gen" /\ g_pc \in {"orchestrate", "analyze_context",
                                  "generate_narrative", "check_quality"}
       \/ wf = "cont" /\ c_pc \in {"analyze_continuation_context",
                                   "plan_continuation", "generate_segment",
                                   "check_segment_quality"}

\* the workflow is past its quality router: at an enrichment step, at the
\* evaluation or finalization step, or finished
PastQualityGate ==
    IF wf = "gen"
    THEN g_pc \in {"generate_visuals", "finalize_output", "END"}
    ELSE c_pc \in {"update_world_context", "generate_segment_visuals",
                   "evaluate_continuation", "finalize_chapter", "END"}

\* C17: a failed critical provider call appends an entry to errors, and the
\* workflow neither goes on past its quality router nor finishes before the
\* error-handling step has run.
C17_CriticalFailureHandled ==
    [][/\ CriticalFailed =>
             IF wf = "gen" THEN g_errors' = g_errors + 1
                           ELSE c_errors' = c_errors + 1
       /\ unhandled_failure' => ~PastQualityGate']_vars

\* keys of the conditional-edge maps of the two graphs
EdgeMapKeys(router) ==
    CASE router = "_quality_routing" ->
            {"regenerate", "update_world", "continue", "error"}
      [] router = "_world_update_routing" -> {"generate_visuals", "evaluate"}
      [] router = "_continuation_routing" ->
            {"continue_segment", "finalize", "error"}
      [] router = "_error_routing" -> {"retry", "finalize", "end"}
      [] router = "_should_enhance_world" ->
            {"enhance_world", "generate_narrative"}
      [] router = "_quality_check_routing" ->
            {"retry_narrative", "generate_visuals", "finalize", "error"}
      [] router = "_should_generate_visuals" -> {"finalize", "skip_visuals"}
      [] router = "_error_recovery_routing" -> {"retry", "error", "end"}

\* C18: every router invocation returns, without raising, a key of the
\* router's conditional-edge map.
C18_RoutersTotal ==
    /\ (c_route.router # "none") =>
          c_route.decision \in EdgeMapKeys(c_route.router)
    /\ (g_route.router # "none") =>
          g_route.decision \in EdgeMapKeys(g_route.router)

\* C19: after a segment is evaluated the continuation router returns
\* "continue_segment" exactly when current_segment < target_segments, the
\* mode is not user_guided and errors has at most 3 entries; in every other
\* case it returns "finalize".
C19_ContinuationRule ==
    [][(/\ wf = "cont"
        /\ c_pc = "evaluate_continuation"
        /\ c_steps' = c_steps + 1) =>
          LET continue == /\ current_segment' < target_segments
                          /\ continuation_mode # "user_guided"
                          /\ c_errors' <= LoopErrorBudget
          IN /\ c_route' = [router |-> "_continuation_routing",
                            decision |-> IF continue THEN "continue_segment"
                                         ELSE "finalize"]
             /\ c_pc' = IF continue THEN "generate_segment"
                        ELSE "finalize_chapter"]_vars

\* the router finalized below the target because of the error budget
C19_Witness ==
    /\ wf = "cont"
    /\ c_route = [router |-> "_continuation_routing", decision |-> "finalize"]
    /\ c_pc = "finalize_chapter"
    /\ current_segment < target_segments
    /\ continuation_mode # "user_guided"
    /\ c_errors > LoopErrorBudget

\* C20: the error router ends the execution without a result when errors has
\* more than 5 entries; otherwise it goes to finalize when a segment is
\* completed; otherwise it requests a retry, and there are at most 3 such
\* retries in one execution.
C20_ErrorRouterRule ==
    [][(/\ wf = "cont"
        /\ c_pc = "handle_continuation_error"
        /\ c_steps' = c_steps + 1) =>
          /\ c_route'.router = "_error_routing"
          /\ IF c_errors > RouterErrorBudget
             THEN /\ c_route'.decision = "end"
                  /\ c_pc' = "END"
                  /\ ~final_chapter_content'.set
             ELSE IF completed_segments # <<>>
             THEN /\ c_route'.decision = "finalize"
                  /\ c_pc' = "finalize_chapter"
             ELSE /\ c_route'.decision = "retry"
                  /\ c_pc' = "generate_segment"
          /\ error_retries' <= WorkflowRetryCap]_vars

\* the stored orchestration plan names world-building in its agent sequence
WorldBuildingPlanned ==
    orchestration_result.set /\ orchestration_result.world_building

\* C21: enhance_world is entered exactly when the orchestration plan contains
\* world-building: analyze_context is followed by enhance_world when it is
\* planned and directly by generate_narrative when it is not, and
\* enhance_world is followed by generate_narrative.
C21_EnhanceWorldIffPlanned ==
    [][(wf = "gen") =>
          /\ (g_pc = "analyze_context" /\ g_steps' = g_steps + 1) =>
                g_pc' = IF WorldBuildingPlanned THEN "enhance_world"
                        ELSE "generate_narrative"
          /\ (g_pc = "enhance_world" /\ g_steps' = g_steps + 1) =>
                g_pc' = "generate_narrative"
          /\ (g_pc' = "enhance_world" /\ g_pc # "enhance_world") =>
                g_pc = "analyze_context" /\ WorldBuildingPlanned]_vars

\* the image-enablement flag of the running workflow is off
ImagesOff ==
    IF wf = "gen" THEN ~include_images ELSE ~image_enabled

\* no visual step is due and no visual result was ever stored
NoVisuals ==
    IF wf = "gen"
    THEN g_pc # "generate_visuals" /\ visual_result = "none"
    ELSE c_pc # "generate_segment_visuals" /\ visual_generations = <<>>

\* the visual-generation provider is called in this step
VisualProviderInvoked ==
    \/ /\ wf = "gen"
       /\ g_pc = "generate_visuals"
       /\ g_steps' = g_steps + 1
    \/ /\ wf = "cont"
       /\ c_pc = "generate_segment_visuals"
       /\ failures' # failures \/ visual_generations' # visual_generations

\* this step's router left the visual step out
VisualsSkipped ==
    \/ /\ wf = "gen"
       /\ g_pc = "check_quality"
       /\ g_steps' = g_steps + 1
       /\ g_route'.decision = "finalize"
    \/ /\ wf = "cont"
       /\ c_pc = "update_world_context"
       /\ c_steps' = c_steps + 1
       /\ c_route'.decision = "evaluate"

\* C22: with the image flag off the visual step is never entered, so the
\* visual-generation provider is never invoked, and the step whose router
\* skips it adds nothing to errors or warnings.
C22_NoVisualsWhenDisabled ==
    [][ImagesOff =>
          /\ ~VisualProviderInvoked
          /\ NoVisuals'
          /\ VisualsSkipped =>
                /\ g_errors' = g_errors
                /\ c_errors' = c_errors
                /\ warnings' = warnings]_vars

\* a continuation with images off completed two segments with world updates
C22_Witness ==
    /\ wf = "cont"
    /\ ~image_enabled
    /\ c_pc = "END"
    /\ Len(completed_segments) = 2
    /\ Len(world_updates) = 2
    /\ c_route.router = "_continuation_routing"

\* a text without the newlines of the join separator
WithoutNewlines(t) == SelectSeq(t, LAMBDA c : c # "NL")

RECURSIVE Flatten(_)
Flatten(pieces) ==
    IF pieces = <<>> THEN <<>> ELSE Head(pieces) \o Flatten(Tail(pieces))

NonEmptyPieces(pieces) ==
    Cardinality({i \in 1..Len(pieces) : pieces[i] # <<>>})

\* C23: _finalize_chapter is idempotent: an invocation on an already
\* finalized state, whatever the continuity provider returns, leaves
\* final_chapter_content and final_word_count as the earlier invocation on
\* the same completed_segments and previous_content set them, and leaves
\* these inputs alone.
C23_FinalizeIdempotent ==
    [][(f_invocations' = f_invocations + 1) =>
          /\ previous_content' = previous_content
          /\ f_completed_segments' = f_completed_segments
          /\ (f_invocations >= 1) =>
                /\ f_final_chapter_content' = f_final_chapter_content
                /\ f_final_word_count' = f_final_word_count]_vars

\* finalized twice with three words, the continuity provider failing both times
C23_Witness ==
    /\ f_invocations = 2
    /\ f_final_word_count = 3
    /\ f_continuation_context = FALSE

\* C24: after _finalize_chapter the final content is previous_content
\* followed by the content of every completed segment in list order, the
\* non-empty pieces separated by one blank line and the empty ones omitted,
\* and the final word count is the word count of that text: the words of
\* previous_content plus the word counts of the completed segments.
C24_FinalAssembly ==
    (f_invocations >= 1) =>
        LET pieces == AllContent(previous_content, f_completed_segments)
            text == f_final_chapter_content.text
            separators == Cardinality({i \in 1..Len(text) : text[i] = "NL"})
            n == NonEmptyPieces(pieces)
        IN /\ f_final_chapter_content.set
           /\ WithoutNewlines(text) = Flatten(pieces)
           /\ separators = IF n = 0 THEN 0 ELSE 2 * (n - 1)
           /\ f_final_word_count = Words(text)
           /\ f_final_word_count =
                 Words(previous_content)
                    + SumWordCounts(f_completed_segments)

\* previous content, an empty segment and a one-word segment were assembled
C24_Witness ==
    /\ f_invocations = 1
    /\ previous_content = <<"a">>
    /\ Len(f_completed_segments) = 2
    /\ f_completed_segments[1].content = <<>>
    /\ f_completed_segments[2].content = <<"a", " ">>
    /\ f_final_chapter_content.text = <<"a", "NL", "NL", "a", " ">>
    /\ f_final_word_count = 2

\* what the caller of the running workflow gets
Returned ==
    IF wf = "gen" THEN ExecuteWorkflow ELSE ExecuteContinuationWorkflow

\* C25: whatever the providers answer, an execution goes on until ainvoke
\* ends or is aborted, and execute_workflow / execute_continuation_workflow
\* then return a result record (success or failure): no exception reaches
\* the caller.
C25_NoEscapingException ==
    /\ Returned.kind \in {"running", "result"}
    /\ (Returned.kind = "running") => ENABLED Next
    /\ (g_pc \in Terminal \/ c_pc \in Terminal) => Returned.kind = "result"

\* the router's AttributeError after a failed planner call ended ainvoke and
\* the caller got a failure record
C25_Witness ==
    /\ wf = "gen"
    /\ g_pc = "raised"
    /\ g_route.decision = "AttributeError"
    /\ failures >= 1
    /\ Returned = ResultRecord(FALSE)

\* C26: a continuation requested with empty previous_content is rejected at
\* once: no step of the workflow runs, no provider is invoked (none succeeds,
\* none fails), and the caller gets a failure record.
C26_EmptyContentRejected ==
    (wf = "cont" /\ previous_content = <<>>) =>
        /\ c_steps = 0
        /\ ~context_analysis
        /\ failures = 0
        /\ Returned # ResultRecord(TRUE)

\* C27: a continuation in which some step appended to errors but which ended
\* through finalize_chapter with at least one completed segment is reported
\* to the caller as a success.
C27_DegradedIsSuccess ==
    (/\ wf = "cont"
     /\ c_pc = "END"
     /\ final_chapter_content.set
     /\ completed_segments # <<>>
     /\ c_errors > 0) =>
        Returned = ResultRecord(TRUE)

\* the states task t can move to on its own: by entering, with or without
\* an initialization, or by one super-step with some provider outcome
OwnSuccessors(t) ==
    LET st == t_states[t]
    IN IF st.pc = "start"
       THEN {[st EXCEPT !.pc = p] :
                p \in {"raised", "analyze_continuation_context"}}
       ELSE IF st.pc \in Terminal THEN {}
       ELSE {TaskStep([st EXCEPT !.steps = @ + 1], ok, q) :
                ok \in BOOLEAN, q \in {69, 70}}

\* C28: executions for different tasks never touch each other's workflow
\* state: every step is the step of one task, leaves the state of every
\* other task as it was, and moves the task's own state to a state it could
\* move to alone; so each task's routing decisions and final result are
\* those of a run on its own.
C28_TaskIsolation ==
    [][(wf = "tasks") =>
          \E t \in Tasks :
             /\ \A u \in Tasks \ {t} : t_states'[u] = t_states[u]
             /\ t_states'[t] \in OwnSuccessors(t)]_vars

\* both executions ran on the workflow the first of them initialized and
\* both ended, with different results
C28_Witness ==
    /\ wf = "tasks"
    /\ agents_built = 1
    /\ \A t \in Tasks : t_states[t].pc = "END"
    /\ t_states[1].final_chapter_content = <<0, 1>>
    /\ t_states[2].final_chapter_content = <<0, 2>>
    /\ t_states[1].errors = 1
    /\ t_states[2].errors = 0

\* ---- C29
\* the step answers a get, update or delete whose target is not stored
MissingStoryRequest ==
    \E story_id \in Ids \ DOMAIN stories :
        \/ GetStory(story_id)
        \/ DeleteStory(story_id)
        \/ \E title \in StoryTitles : UpdateStory(story_id, title)

MissingCharacterRequest ==
    \E character_id \in Ids \ DOMAIN characters :
        \/ GetCharacter(character_id)
        \/ DeleteCharacter(character_id)
        \/ \E keys \in CharacterPayloadKeys, name \in Names :
              UpdateCharacter(character_id, keys, name)

MissingChapterRequest ==
    \E story_id \in Ids, chapter_id \in Ids :
        /\ ~HasChapter(story_id, chapter_id)
        /\ \/ GetChapter(story_id, chapter_id)
           \/ DeleteChapter(story_id, chapter_id)
           \/ \E title \in Titles : UpdateChapter(story_id, chapter_id, title)

MissingRelationshipRequest ==
    \E relationship_id \in Ids \ DOMAIN relationships :
        \/ GetRelationship(relationship_id)
        \/ DeleteRelationship(relationship_id)
        \/ \E character1_id \in Ids, character2_id \in Ids,
              type \in RelationshipTypes :
              UpdateRelationship(relationship_id, character1_id,
                                 character2_id, type)

\* C29: a get, update or delete of a story, character, chapter or
\* relationship whose id is not stored (a chapter id under a story that is
\* not stored included) is answered with not-found (404) and leaves every
\* stored story, character, chapter and relationship as it was.
C29_MissingIdNotFound ==
    [][(\/ MissingStoryRequest
        \/ MissingCharacterRequest
        \/ MissingChapterRequest
        \/ MissingRelationshipRequest) =>
          /\ response'.status = 404
          /\ UNCHANGED <<stories, characters, relationships>>]_vars

\* ---- C30
ChapterIdList(chapters) == [i \in DOMAIN chapters |-> chapters[i].id]

\* the listing of every story carries the order values 1..n in turn
OrdersContiguous ==
    \A s \in DOMAIN stories :
        \A i \in DOMAIN GetStoryChapters(s) : GetStoryChapters(s)[i].order = i

ChapterCreated(s) == \E title \in Titles : CreateChapter(s, title)

ChapterDeleted(s, c) == HasChapter(s, c) /\ DeleteChapter(s, c)

\* what a request does to the listing of a story that stays stored:
\* create_chapter appends the new chapter, delete_chapter takes the deleted
\* one out and keeps the others in their order, everything else keeps it
ListingStep ==
    \A s \in DOMAIN stories \cap DOMAIN stories' :
        LET before == ChapterIdList(SortedByOrder(stories[s].chapters))
            after == ChapterIdList(SortedByOrder(stories'[s].chapters))
        IN /\ ChapterCreated(s) => after = Append(before, NewId)
           /\ \A c \in Ids :
                 ChapterDeleted(s, c) =>
                    after = SelectSeq(before, LAMBDA d : d # c)
           /\ ~ChapterCreated(s) /\ ~(\E c \in Ids : ChapterDeleted(s, c))
                 => after = before

\* C30: after any sequence of create_chapter and delete_chapter requests on
\* a story its listing holds exactly the chapters created and not deleted,
\* in their order of creation, and their order values are 1..n without gap
\* or duplicate.
C30_ChapterListing ==
    /\ []OrdersContiguous
    /\ [][ListingStep]_vars

\* a listing after the second of three chapters was deleted: the first
\* and the third one are listed in this order, the third one with order 2
C30_Witness ==
    /\ wf = "chapters"
    /\ response.status = 200
    /\ ChapterIdList(response.chapters) = <<2, 4>>
    /\ response.chapters[2].order = 2
    /\ response.chapters = GetStoryChapters(1)

\* ---- C31
\* a step handler has returned and the engine has a step to run next
BetweenContinuationSteps == wf = "cont" /\ c_steps > 0 /\ c_pc \notin Terminal

BetweenGenerationSteps == wf = "gen" /\ g_steps > 0 /\ g_pc \notin Terminal

\* C31: in either workflow, after a step handler has returned, current_step
\* names the step the engine executes next.
C31_CurrentStepIsNext ==
    /\ BetweenContinuationSteps => c_current_step = c_pc
    /\ BetweenGenerationSteps => g_current_step = g_pc

\* ---- C32
\* the step that hands over to evaluate_continuation is the enrichment step
\* of the segment: update_world_context, or generate_segment_visuals (itself
\* entered from update_world_context only) when images are enabled
EnrichedBeforeEvaluation ==
    /\ c_pc' = "evaluate_continuation" =>
          c_pc = IF image_enabled THEN "generate_segment_visuals"
                 ELSE "update_world_context"
    /\ c_pc' = "generate_segment_visuals" => c_pc = "update_world_context"

\* C32: in the continuation workflow every segment that evaluate_continuation
\* appends to completed_segments has passed through update_world_context,
\* and through generate_segment_visuals when images are enabled, after its
\* quality check; segments accepted below the threshold after the single
\* retry included.
C32_CompletedWereEnriched ==
    [][wf = "cont" => EnrichedBeforeEvaluation]_vars

\* ---- C33
\* the steps that may hand over to each step of the single-shot graph: an
\* attempt is entered at orchestrate (from handle_error only), analyze_context
\* follows orchestrate, enhance_world follows analyze_context, and the
\* narrator is entered from the planning steps of the attempt or from the
\* reviewer of the attempt
RouterOrder ==
    /\ g_pc' = "orchestrate" => g_pc = "handle_error"
    /\ g_pc' = "analyze_context" => g_pc = "orchestrate"
    /\ g_pc' = "enhance_world" => g_pc = "analyze_context"
    /\ g_pc' = "generate_narrative" =>
          g_pc \in {"analyze_context", "enhance_world", "check_quality"}
    /\ g_pc' = "check_quality" => g_pc = "generate_narrative"
    /\ g_pc = "finalize_output" => g_pc' \in Terminal

\* C33: within one single-shot execution generate_narrative runs only after
\* orchestrate and analyze_context of the same attempt have returned,
\* check_quality runs only directly after generate_narrative, and no step
\* follows finalize_output.
C33_RouterOrder ==
    [][wf = "gen" => RouterOrder]_vars

\* an execution that was restarted by handle_error, retried the narrative in
\* the second attempt and ended through finalize_output
C33_Witness ==
    /\ wf = "gen"
    /\ g_pc = "END"
    /\ restarts = 1
    /\ narrative_retries = 1
    /\ final_result = "success"

\* ---- C34
\* the statuses the row of the task has taken: the updates that were applied
Written ==
    LET applied == SelectSeq(status_writes, LAMBDA w : ~w.raised)
    IN [i \in DOMAIN applied |-> applied[i].status]

TerminalStatuses == {"completed", "failed"}

\* the task function has ended
TaskEnded ==
    \E i \in DOMAIN status_writes : status_writes[i].status \in TerminalStatuses

\* "processing" is written before the workflow starts; once the task has
\* ended exactly one terminal status is written, after "processing", and it
\* is "completed" exactly when the call returned a result with success true
StatusProtocol ==
    /\ WorkflowStarted => Written # <<>> /\ Written[1] = "processing"
    /\ TaskEnded =>
          /\ Len(Written) = 2
          /\ Written[1] = "processing"
          /\ Written[2] = IF WorkflowResult.kind = "result" /\ WorkflowResult.success
                          THEN "completed" ELSE "failed"
    /\ ~TaskEnded => Written \in {<<>>, <<"processing">>}

NoUpdateRaised == \A i \in DOMAIN status_writes : ~status_writes[i].raised

C35_CompletedCountsSegments ==
    wf = "cont" => Len(completed_segments) = current_segment

\* two segments were evaluated, the second after a failed reviewer call
C35_Witness ==
    /\ wf = "cont"
    /\ c_pc = "generate_segment"
    /\ current_segment = 2
    /\ Len(completed_segments) = 2
    /\ warnings = 1

\* ---- C36
\* C36: in every state of the continuation workflow the i-th entry of
\* completed_segments carries segment_number i, and no generated segment is
\* completed twice, also when the narrator fails on a later segment.
C36_CompletedInOrder ==
    wf = "cont" =>
        /\ \A i \in 1..Len(completed_segments) :
              narrative_segments[completed_segments[i]].segment_number = i
        /\ \A i, j \in 1..Len(completed_segments) :
              completed_segments[i] = completed_segments[j] => i = j

\* ---- C37
\* the quality router has just decided
QualityRouterStep ==
    /\ wf = "cont"
    /\ c_decisions' = c_decisions + 1
    /\ c_route'.router = "_quality_routing"

\* C37: whenever the quality router accepts or regenerates the current
\* segment, the quality result it decides on was produced by the reviewer
\* call of the same step; after a failed reviewer call it never decides on an
\* earlier result.
C37_RouterUsesFreshResult ==
    [][(QualityRouterStep
          /\ c_route'.decision \in {"regenerate", "update_world", "continue"})
         => Len(quality_checks') = Len(quality_checks) + 1]_vars

\* ---- C38
\* execution t is inside the compiled graph
UsingWorkflow(t) == t_states[t].pc \notin Terminal \cup {"start"}

\* self.agents and self.workflow are replaced only while no execution is
\* inside the graph
NoRebuildInUse ==
    [][(wf = "tasks" /\ agents_built' # agents_built)
          => \A u \in Tasks : ~UsingWorkflow(u)]_vars

\* C38: when two executions start concurrently on a workflow that is not yet
\* initialized, initialize() runs at most once, and the agents and the graph
\* are never rebuilt or replaced while another execution is using them.
C38_InitializeOnce ==
    /\ [](wf = "tasks" => initialize_runs <= 1)
    /\ NoRebuildInUse

\* C38, with a raising initialize() repeated by the next execution:
\* initialize() is called only while the workflow is not initialized, so it
\* returns at most once.
C38_InitializeReturnsOnce ==
    /\ [][(wf = "tasks" /\ initialize_runs' # initialize_runs)
             => ~initialized]_vars
    /\ NoRebuildInUse

\* both executions are inside the graph after a single initialize()
C38_Witness ==
    /\ wf = "tasks"
    /\ \A t \in Tasks : UsingWorkflow(t)
    /\ initialized
    /\ initialize_runs = 1
    /\ agents_built = 1

\* ---- C39
\* every stored relationship refers to two stored characters
RelationshipsRefer ==
    \A r \in DOMAIN relationships :
        {relationships[r].character1_id, relationships[r].character2_id}
            \subseteq DOMAIN characters

\* the step creates or deletes a character or a relationship
CreateOrDeleteStep ==
    \/ \E name \in Names : CreateCharacter(name)
    \/ \E character_id \in Ids : DeleteCharacter(character_id)
    \/ \E character1_id \in Ids, character2_id \in Ids, type \in RelationshipTypes :
          CreateRelationship(character1_id, character2_id, type)
    \/ \E relationship_id \in Ids : DeleteRelationship(relationship_id)

\* C39: character and relationship create and delete operations keep every
\* stored relationship referring to two existing characters: none is created
\* for a missing character, none survives the deletion of one of its
\* characters.
C39_NoDanglingRelationship ==
    [][(wf = "manager" /\ RelationshipsRefer /\ CreateOrDeleteStep)
          => RelationshipsRefer']_vars

\* ---- C40
\* every stored segment
StoredSegments ==
    UNION {{stories[s].segments[i] : i \in DOMAIN stories[s].segments} :
              s \in DOMAIN stories}

\* an unedited segment has the content it was added with and no original; an
\* edited one keeps the content from before its first edit as original
OriginalKept ==
    \A segment \in StoredSegments :
        IF segment.is_edited
        THEN segment.original_content = first_content[segment.id]
        ELSE /\ segment.content = first_content[segment.id]
             /\ segment.original_content = "None"

\* an edit_segment call that finds its segment leaves it edited, with the
\* new text as content, and returns True
EditApplies ==
    \A story_id \in Ids, segment_id \in Ids, new_content \in Contents :
        HasSegment(story_id, segment_id) =>
            LET edit == EditSegment(story_id, segment_id, new_content)
                edited == {segment \in {edit.stories[story_id].segments[i] :
                                  i \in DOMAIN edit.stories[story_id].segments} :
                              segment.id = segment_id}
            IN /\ edit.returned
               /\ \A segment \in edited :
                     segment.is_edited /\ segment.content = new_content

\* an edit_segment call for an unknown story or segment returns False and
\* changes nothing
FailedEditChangesNothing ==
    \A story_id \in Ids, segment_id \in Ids, new_content \in Contents :
        ~HasSegment(story_id, segment_id) =>
            EditSegment(story_id, segment_id, new_content) =
                [returned |-> FALSE, stories |-> stories]

\* the step is an edit request answered with 200
EditedStep ==
    /\ response'.status = 200
    /\ \E story_id \in Ids, segment_id \in Ids, edited_content \in Contents :
          /\ EditStorySegment(story_id, segment_id, edited_content)
          /\ \E i \in DOMAIN stories'[story_id].segments :
                LET segment == stories'[story_id].segments[i]
                IN /\ segment.id = segment_id
                   /\ segment.is_edited
                   /\ segment.content = edited_content

\* C40: after any number of edit_segment calls on a segment, original_content
\* is the content the segment had before its first edit, is_edited is true
\* and content is the text of the latest edit; an edit of an unknown story or
\* segment changes nothing.
C40_EditKeepsOriginal ==
    /\ [](wf = "segments" =>
             OriginalKept /\ EditApplies /\ FailedEditChangesNothing)
    /\ [][(wf = "segments"
            /\ \E story_id \in Ids, segment_id \in Ids, edited_content \in Contents :
                  EditStorySegment(story_id, segment_id, edited_content))
          => \/ EditedStep
             \/ response'.status # 200 /\ stories' = stories]_vars

\* a segment added as "c0" has been edited twice and reads "c1": its
\* original is still the text it was added with
C40_Witness ==
    /\ wf = "segments"
    /\ \E segment \in StoredSegments :
          /\ first_content[segment.id] = "c0"
          /\ edits[segment.id] = MaxEdits
          /\ segment.is_edited
          /\ segment.content = "c1"
          /\ segment.original_content = "c0"

====
